---- MODULE Spec2Model ----
(***************************************************************************)
(* Booking, dispatch and payment handlers of the TTTaxis backend.          *)
(*                                                                         *)
(* The repository holds several server programs.  Each one is modelled as  *)
(* its own specification over its own part of the state:                   *)
(*   SpecLite  - the SQLite dispatch server (src/server.js 423-983):       *)
(*               create_booking_lead, /twilio/whatsapp,                    *)
(*               /admin/assign-driver                                      *)
(*   SpecPg    - the Postgres payment server (src/server.js 1-421):        *)
(*               /create-payment, /square/webhook                          *)
(*   SpecArea  - the multi-area payment server (src/unnamed/part_002       *)
(*               153-576): /create-payment, signed /square/webhook         *)
(*   SpecAreaQuote - /quote of the same server, which shares no state      *)
(*               with its payment handlers                                 *)
(*   SpecQuote - the stateless quote/book server (src/unnamed/part_003):   *)
(*               /quote, /book                                             *)
(*   SpecInstant - the server that books without a payment provider        *)
(*               (src/unnamed/part_009 1-337): /quote, /create-payment     *)
(*   SpecLocal - the quote server with fixed routes and a night rate       *)
(*               (src/unnamed/part_009 342-521): /quote                    *)
(*   SpecChat  - the scripted chat booking server (src/unnamed/part_005):  *)
(*               /chat                                                     *)
(*   SpecHaversine - the straight-line quote server                        *)
(*               (src/unnamed/part_004 42-171): /quote                     *)
(*   SpecNotify - the payment server without a database                    *)
(*               (src/unnamed/part_010): /quote, /create-payment,          *)
(*               /square/webhook                                           *)
(*   SpecToken - the TaxiCaller token cache of the Postgres server         *)
(*               (src/server.js 187-216): getTaxiCallerToken               *)
(*   SpecFare  - the metered fare calculators, applied to drawn inputs:    *)
(*               calculateLocalFare (src/unnamed/part_009 452-463) and     *)
(*               quoteFareGBP (src/server.js 526-555)                      *)
(* Money is kept in pence, miles in hundredths of a mile, times in minutes.*)
(***************************************************************************)
EXTENDS Integers, FiniteSets, Sequences, TLC

VARIABLES
    \* SQLite dispatch server
    bookings,      \* table bookings: booking_id -> row
    drivers,       \* table drivers: driver_id -> is_active
    assignments,   \* table assignments: booking_id -> row
    messages,      \* table messages: number of rows
    now,           \* the clock read by nowIso()
    \* Postgres payment server
    pgBookings,    \* table bookings: booking_ref -> row
    pgEmails,      \* booking_ref -> confirmation emails sent by sendBookingEmails
    pgDispatched,  \* booking_ref -> orders posted to TaxiCaller
    pgConfigured,  \* taxiCallerConfigured(): the TAXICALLER_* settings are present
    pgDeliveries,  \* webhook deliveries handled so far
    pgResp,        \* the last request and the answer it got
    \* Multi-area payment server
    arBookings,    \* table bookings: id -> row
    arEmails,      \* booking reference -> confirmation emails sent to the buyer
    arCheckouts,   \* payment links created at Square: [note, amount]
    arDeliveries,  \* webhook deliveries handled so far
    arResp,        \* the last payment request and the answer it got
    arQuote,       \* the last /quote request and the answer it got
    \* Stateless quote/book server
    qIssued,       \* the quotes /quote has answered with
    qBooked,       \* the booking payloads /book has accepted
    qResp,         \* the last request and the answer it got
    \* Server that books without a payment provider
    icBookings,    \* table bookings: booking_ref -> row
    icEmails,      \* booking_ref -> confirmation emails sent by sendBookingEmails
    icResp,        \* the last request and the answer it got
    \* Metered fare calculators
    fareIn,        \* the arguments: miles and pickup_time_iso
    fareOut,       \* the calculator applied and what it returned
    \* Quote server with fixed routes and a night rate
    lqResp,        \* the last /quote request and the answer it got
    \* Scripted chat booking server
    chPending,     \* the Map pending: session key -> the quote awaiting details
    chBookings,    \* bookings.json: the stored bookings, newest first
    chReply,       \* the kind of the last reply
    chShown,       \* customer -> the quote the customer was last replied with
    \* Straight-line quote server
    hvResp,        \* the last /quote request and the answer it got
    \* Payment server without a database
    nsCheckouts,   \* payment links created at Square: [note, amount]
    nsEmails,      \* booking reference -> confirmation emails sent
    nsDeliveries,  \* webhook deliveries handled so far
    nsResp,        \* the last request and the answer it got
    \* TaxiCaller token cache
    tcNow,                   \* Date.now(), in seconds
    taxiCallerToken,         \* the cached token, NoToken for null
    taxiCallerTokenExpires,  \* the recorded expiry of the cached token, in seconds
    tcCalls,                 \* calls of getTaxiCallerToken waiting for axios.post
    tcIssued,                \* the tokens the provider has issued, in order
    tcReturned               \* what the last call that returned gave back

liteVars == <<bookings, drivers, assignments, messages, now>>
pgVars == <<pgBookings, pgEmails, pgDispatched, pgConfigured, pgDeliveries, pgResp>>

arVars == <<arBookings, arEmails, arCheckouts, arDeliveries, arResp, arQuote>>

qVars == <<qIssued, qBooked, qResp>>

icVars == <<icBookings, icEmails, icResp>>

fareVars == <<fareIn, fareOut>>

lqVars == <<lqResp>>

chVars == <<chPending, chBookings, chReply, chShown>>

hvVars == <<hvResp>>

nsVars == <<nsCheckouts, nsEmails, nsDeliveries, nsResp>>

tcVars == <<tcNow, taxiCallerToken, taxiCallerTokenExpires, tcCalls, tcIssued,
            tcReturned>>

vars == <<liteVars, pgVars, arVars, qVars, icVars, fareVars, lqVars,
          chVars, hvVars, nsVars, tcVars>>

\* What each server leaves alone: the state of the others.
notLite ==
    <<pgVars, arVars, qVars, icVars, fareVars, lqVars,
      chVars, hvVars, nsVars, tcVars>>
notPg ==
    <<liteVars, arVars, qVars, icVars, fareVars, lqVars,
      chVars, hvVars, nsVars, tcVars>>
notArea ==
    <<liteVars, pgVars, qVars, icVars, fareVars, lqVars,
      chVars, hvVars, nsVars, tcVars>>
notQuote ==
    <<liteVars, pgVars, arVars, icVars, fareVars, lqVars,
      chVars, hvVars, nsVars, tcVars>>
notInstant ==
    <<liteVars, pgVars, arVars, qVars, fareVars, lqVars,
      chVars, hvVars, nsVars, tcVars>>
notFare ==
    <<liteVars, pgVars, arVars, qVars, icVars, lqVars,
      chVars, hvVars, nsVars, tcVars>>
notLocal ==
    <<liteVars, pgVars, arVars, qVars, icVars, fareVars,
      chVars, hvVars, nsVars, tcVars>>
notChat ==
    <<liteVars, pgVars, arVars, qVars, icVars, fareVars,
      lqVars, hvVars, nsVars, tcVars>>
notHaversine ==
    <<liteVars, pgVars, arVars, qVars, icVars, fareVars,
      lqVars, chVars, nsVars, tcVars>>
notNotify ==
    <<liteVars, pgVars, arVars, qVars, icVars, fareVars,
      lqVars, chVars, hvVars, tcVars>>
notToken ==
    <<liteVars, pgVars, arVars, qVars, icVars, fareVars,
      lqVars, chVars, hvVars, nsVars>>

NULL == "null"

(***************************************************************************)
(* Bounds of the model.                                                    *)
(***************************************************************************)
MaxNow == 1
MaxMessages == 2
MaxDeliveries == 2
MaxQuotes == 2
MaxBooked == 1
MaxChatBookings == 2

BookingIds == {"b1", "b2"}
\* The customers of the chat, each known by the mobile number they give.
Customers == {"07700900001", "07700900002"}
DriverIds == {"d1", "d2"}
UnknownDriver == "d9"
\* A phone number or address is a sequence of tokens, so that a prefix can
\* be stripped from it.
Phones == {<<"+447700900001">>, <<"+447700900002">>}
PickupTimes == {0, 30}
\* duration_minutes is optional: <<>> is SQL NULL, <<m>> is m minutes.
Durations == {<<>>, <<30>>}
Refs == {"TTT-1", "TTT-2"}
UnknownRef == "TTT-9"
AreaIds == {"a1", "a2"}
UnknownAreaId == "a9"

(***************************************************************************)
(* Every server before its first request.  A specification starts the      *)
(* server it is about from its own Init* and the others from here.          *)
(***************************************************************************)
IdleLite ==
    /\ bookings = <<>>
    /\ drivers = [d \in DriverIds |-> 1]
    /\ assignments = <<>>
    /\ messages = 0
    /\ now = 0

\* The Postgres server before its first request.
IdlePg ==
    /\ pgBookings = <<>>
    /\ pgEmails = [r \in Refs |-> 0]
    /\ pgDispatched = [r \in Refs |-> 0]
    /\ pgConfigured = FALSE
    /\ pgDeliveries = 0
    /\ pgResp = [op |-> "none", code |-> 0, signed |-> FALSE, kind |-> "none",
                 dispatch |-> "none"]

\* The multi-area server before its first request.
IdleArea ==
    /\ arBookings = <<>>
    /\ arEmails = [r \in AreaIds \cup {UnknownAreaId} |-> 0]
    /\ arCheckouts = {}
    /\ arDeliveries = 0
    /\ arResp = [op |-> "none", code |-> 0, signed |-> FALSE, kind |-> "none"]
    /\ arQuote = [op |-> "none", area |-> "", pickup |-> <<>>, dropoff |-> <<>>,
                  geocoded |-> FALSE, routed |-> 0, code |-> 0,
                  fixed |-> FALSE, miles |-> <<>>, price |-> <<>>]

\* The quote/book server before its first request.
IdleQuote ==
    /\ qIssued = {}
    /\ qBooked = {}
    /\ qResp = [op |-> "none", code |-> 0]

\* The server that books without a payment provider, before its first
\* request.
IdleInstant ==
    /\ icBookings = <<>>
    /\ icEmails = [r \in Refs |-> 0]
    /\ icResp = [op |-> "none", code |-> 0, price |-> 0]

\* No fare calculator has been called.
NoFare == [fn |-> "none", ok |-> FALSE, multiplier |-> 0, total |-> 0]

IdleFare ==
    /\ fareIn = [miles |-> 0, pickup_time_iso |-> <<>>]
    /\ fareOut = NoFare

\* The quote server with fixed routes, before its first request.
IdleLocal ==
    lqResp = [op |-> "none", code |-> 0, pickup |-> <<>>, dropoff |-> <<>>,
              pickup_time_iso |-> <<>>, lookups |-> FALSE,
              fixed |-> FALSE, miles |-> <<>>, price_gbp |-> <<>>]

\* The chat server before its first message: no session, an empty
\* bookings.json.
IdleChat ==
    /\ chPending = <<>>
    /\ chBookings = <<>>
    /\ chReply = "none"
    /\ chShown = [c \in Customers |-> <<>>]

\* The booking reference the webhook falls back to: getValue("Booking") || "TTTAXIS".
DefaultRef == "TTTAXIS"

\* The payment server without a database before its first request.
IdleNotify ==
    /\ nsCheckouts = {}
    /\ nsEmails = [r \in AreaIds \cup {DefaultRef} |-> 0]
    /\ nsDeliveries = 0
    /\ nsResp = [op |-> "none", code |-> 0, price |-> 0,
                 pay_driver |-> FALSE, deposit_available |-> FALSE,
                 payment_mode |-> "none"]

\* let taxiCallerToken = null
NoToken == 0

\* The token cache before the first call.
IdleToken ==
    /\ tcNow = 0
    /\ taxiCallerToken = NoToken
    /\ taxiCallerTokenExpires = 0
    /\ tcCalls = {}
    /\ tcIssued = <<>>
    /\ tcReturned = [token |-> NoToken, at |-> 0, cached |-> FALSE, expires |-> 0]

\* The straight-line quote server before its first request.
IdleHaversine ==
    hvResp = [op |-> "none", code |-> 0, pickup |-> <<>>, dropoff |-> <<>>,
                 from |-> <<>>, to |-> <<>>,
                 fixed |-> FALSE, miles |-> <<>>, price_gbp |-> <<>>]

(***************************************************************************)
(* SQLite dispatch server                                                  *)
(***************************************************************************)

\* The words of an inbound message body that the handler looks for.
Bodies == {<<"cancel">>, <<"confirm">>, <<"yes">>, <<"hello">>,
           <<"yes", "please", "cancel">>, <<"cancelled">>}

\* /\bword\b/.test(lower): the body holds the word as a whole word.
HasWord(body, w) == \E i \in 1..Len(body) : body[i] = w

\* from.replace(/^whatsapp:/, "")
StripWhatsApp(from) ==
    IF Len(from) > 0 /\ Head(from) = "whatsapp:" THEN Tail(from) ELSE from

Senders == {<<"whatsapp:">> \o p : p \in Phones} \cup Phones

\* SELECT booking_id FROM bookings WHERE customer_phone = ?
\*   ORDER BY created_at_iso DESC LIMIT 1
\* Rows with the same created_at_iso are not ordered by the query.
MostRecentBookings(phone) ==
    {b \in DOMAIN bookings :
        /\ bookings[b].customer_phone = phone
        /\ \A c \in DOMAIN bookings :
              bookings[c].customer_phone = phone
                  => bookings[c].created_at_iso <= bookings[b].created_at_iso}

\* ReplyStatus for a handler that tests confirm and yes before cancel.
ReplyStatusConfirmFirst(body) ==
    IF HasWord(body, "confirm") \/ HasWord(body, "yes")
    THEN "CUSTOMER_CONFIRMED"
    ELSE IF HasWord(body, "cancel") THEN "CANCEL_REQUESTED"
         ELSE NULL

\* The status an inbound body sets, NULL when it sets none.
ReplyStatus(body) ==
    IF HasWord(body, "cancel") THEN "CANCEL_REQUESTED"
    ELSE IF HasWord(body, "confirm") \/ HasWord(body, "yes")
         THEN "CUSTOMER_CONFIRMED"
         ELSE NULL

\* requireAdmin: the x-tttaxis-admin header must equal ADMIN_TOKEN.
AdminTokens == {NULL, "change-me", "wrong"}
AdminOk(token) == token # NULL /\ token = "change-me"

InitLite ==
    /\ bookings = <<>>
    /\ drivers \in [DriverIds -> {0, 1}]
    /\ assignments = <<>>
    /\ messages = 0
    /\ now = 0
    /\ IdlePg /\ IdleArea /\ IdleQuote /\ IdleInstant /\ IdleFare
    /\ IdleLocal /\ IdleChat /\ IdleHaversine /\ IdleNotify /\ IdleToken

\* new Date() moves on between requests.
Tick ==
    /\ now < MaxNow
    /\ now' = now + 1
    /\ UNCHANGED <<bookings, drivers, assignments, messages>>
    /\ UNCHANGED notLite

\* InsertBooking for a statement that overwrites the stored row of a
\* repeated booking_id (INSERT OR REPLACE).
InsertOrReplaceBooking(rows, booking_id, row) ==
    [b \in DOMAIN rows \cup {booking_id} |->
        IF b = booking_id THEN row ELSE rows[b]]

\* INSERT INTO bookings: booking_id is the PRIMARY KEY, so a repeated id
\* makes stmt.run throw and nothing is written.
InsertBooking(rows, booking_id, row) ==
    IF booking_id \in DOMAIN rows THEN rows ELSE rows @@ (booking_id :> row)

\* runToolCall, name = "create_booking_lead": one INSERT INTO bookings.
CreateBookingLead(booking_id, args) ==
    /\ bookings' = InsertBooking(bookings, booking_id,
           [status |-> "NEW",
            created_at_iso |-> now,
            customer_phone |-> args.customer_phone,
            pickup_time_iso |-> args.pickup_time_iso,
            duration_minutes |-> args.duration_minutes])
    /\ UNCHANGED <<drivers, assignments, messages, now>>
    /\ UNCHANGED notLite

BookingArgs ==
    [customer_phone : Phones, pickup_time_iso : PickupTimes,
     duration_minutes : Durations]

\* POST /twilio/whatsapp
TwilioWhatsApp(from, body) ==
    /\ messages < MaxMessages
    /\ messages' = messages + 1
    /\ LET rows == MostRecentBookings(StripWhatsApp(from))
           st == ReplyStatus(body)
       IN  IF rows = {} \/ st = NULL
           THEN UNCHANGED bookings
           ELSE \E b \in rows :
                   bookings' = [bookings EXCEPT ![b].status = st]
    /\ UNCHANGED <<drivers, assignments, now>>
    /\ UNCHANGED notLite

\* AssignDriverAccepts for a handler that does not look the driver up.
AssignDriverAcceptsAnyDriver(token, booking_id, driver_id) ==
    /\ AdminOk(token)
    /\ booking_id # NULL /\ driver_id # NULL
    /\ booking_id \in DOMAIN bookings

\* What /admin/assign-driver demands before it writes: the admin token,
\* both ids, a stored booking and a stored driver.
AssignDriverAccepts(token, booking_id, driver_id) ==
    /\ AdminOk(token)
    /\ booking_id # NULL /\ driver_id # NULL
    /\ booking_id \in DOMAIN bookings
    /\ driver_id \in DOMAIN drivers

\* UpsertAssignment for a statement that leaves a stored row alone
\* (ON CONFLICT(booking_id) DO NOTHING).
UpsertAssignmentKeep(rows, booking_id, row) ==
    [b \in DOMAIN rows \cup {booking_id} |->
        IF b \in DOMAIN rows THEN rows[b] ELSE row]

\* INSERT INTO assignments ... ON CONFLICT(booking_id) DO UPDATE SET
\* driver_id = excluded.driver_id, assigned_at_iso = excluded.assigned_at_iso
UpsertAssignment(rows, booking_id, row) ==
    [b \in DOMAIN rows \cup {booking_id} |->
        IF b = booking_id THEN row ELSE rows[b]]

\* POST /admin/assign-driver
AssignDriver(token, booking_id, driver_id) ==
    /\ IF AssignDriverAccepts(token, booking_id, driver_id)
       THEN /\ assignments' =
                 UpsertAssignment(assignments, booking_id,
                     [driver_id |-> driver_id, assigned_at_iso |-> now])
            /\ bookings' = [bookings EXCEPT ![booking_id].status = "DRIVER_ASSIGNED"]
       ELSE UNCHANGED <<assignments, bookings>>
    /\ UNCHANGED <<drivers, messages, now>>
    /\ UNCHANGED notLite

NextLite ==
    \/ Tick
    \/ \E id \in BookingIds, args \in BookingArgs : CreateBookingLead(id, args)
    \/ \E from \in Senders, body \in Bodies : TwilioWhatsApp(from, body)
    \/ \E token \in AdminTokens, b \in BookingIds \cup {NULL},
          d \in DriverIds \cup {UnknownDriver, NULL} : AssignDriver(token, b, d)

(***************************************************************************)
(* Postgres payment server                                                 *)
(***************************************************************************)
VatPercent == 20
MinFarePence == 420
PerMilePence == 220
PlaceholderMiles == 10

Max2(a, b) == IF a >= b THEN a ELSE b

\* Number(x.toFixed(2)) of a price given in hundredths of a penny: the
\* nearest penny, halves upwards.
ToFixed2(n) == (n + 50) \div 100

\* One word of String.prototype.toLowerCase().
LowerWord(w) ==
    CASE w = "Kendal" -> "kendal"
      [] w = "Windermere" -> "windermere"
      [] w = "Manchester" -> "manchester"
      [] w = "Airport" -> "airport"
      [] w = "Liverpool" -> "liverpool"
      [] w = "Leeds" -> "leeds"
      [] w = "Lancaster" -> "lancaster"
      [] w = "Bradford" -> "bradford"
      [] w = "John" -> "john"
      [] w = "Lennon" -> "lennon"
      [] w = "KENDAL" -> "kendal"
      [] w = "Station" -> "station"
      [] OTHER -> w

ToLowerCase(address) == [i \in 1..Len(address) |-> LowerWord(address[i])]

\* address.includes(match), for a match that is one word.
Includes(address, match) == \E i \in 1..Len(address) : address[i] = match

\* Number((rule.price * (1 + VAT_RATE)).toFixed(2)), in pence.
FixedTotal(price) == ToFixed2(price * (100 + VatPercent))

\* Number(miles.toFixed(2)), in hundredths of a mile.
MilesToFixed2(miles) == (miles + 5) \div 10

\* What a routing call may answer, in thousandths of a mile: a distance,
\* or 0 for a failed call.
RouteOutcomes == {0, 1234, 9876}

\* calculatePrice(): max(MIN_FARE, miles * PER_MILE) * (1 + VAT_RATE), in pence.
PgCalculatePrice ==
    ToFixed2(Max2(MinFarePence, PlaceholderMiles * PerMilePence) * (100 + VatPercent))

Prices == {PgCalculatePrice, PgCalculatePrice + 1}
PaymentTypes == {"full", "deposit"}
\* amount_money.amount of a payment, in pence.
Amounts == {PgCalculatePrice, PgCalculatePrice \div 10, 100}

\* The payment note is a list of "Label:value" lines.
SquareNote(bookingRef) ==
    << <<"BookingRef", bookingRef>>, <<"Pickup", "Kendal">>, <<"Dropoff", "Windermere">> >>

Notes == {SquareNote(r) : r \in Refs \cup {UnknownRef}}
             \cup {<<>>, << <<"Pickup", "Kendal">> >>}

\* note.split("\n").find(l => l.startsWith("BookingRef:"))?.split(":")[1]
ParseBookingRef(note) ==
    LET hits == {i \in 1..Len(note) : note[i][1] = "BookingRef"}
    IN  IF hits = {} THEN NULL
        ELSE note[CHOOSE i \in hits : \A j \in hits : i <= j][2]

EventTypes == {"payment.updated", "payment.created", "refund.created"}
PaymentStatuses == {"COMPLETED", "APPROVED"}

\* event.type?.startsWith("payment.")
IsPaymentEvent(type) == type \in {"payment.updated", "payment.created", "payment.failed"}

\* A parsed webhook body.
Events ==
    [type : EventTypes, status : PaymentStatuses, note : Notes, amount : Amounts]

\* A body that JSON.parse rejects, or that lacks data.object.payment.
Malformed == [type |-> "malformed", status |-> "", note |-> <<>>, amount |-> 0]

\* What a delivery is, whatever the handler makes of it: "malformed",
\* "completed" (a payment event in the terminal COMPLETED state) or
\* "interim" (any other event).
EventKind(event) ==
    IF event = Malformed THEN "malformed"
    ELSE IF IsPaymentEvent(event.type) /\ event.status = "COMPLETED"
         THEN "completed"
         ELSE "interim"

\* PgIgnored without the test of payment.status: a handler that takes any
\* payment event for a completed payment.
PgIgnoredTypeOnly(event) == ~IsPaymentEvent(event.type)

\* The early returns of the Postgres webhook: the event is no payment
\* event, or its payment is not COMPLETED.
PgIgnored(event) ==
    ~IsPaymentEvent(event.type) \/ event.status # "COMPLETED"

InitPg ==
    /\ pgBookings = <<>>
    /\ pgEmails = [r \in Refs |-> 0]
    /\ pgDispatched = [r \in Refs |-> 0]
    /\ pgConfigured \in BOOLEAN
    /\ pgDeliveries = 0
    /\ pgResp = [op |-> "none", code |-> 0, signed |-> FALSE, kind |-> "none",
                 dispatch |-> "none"]
    /\ IdleLite /\ IdleArea /\ IdleQuote /\ IdleInstant /\ IdleFare
    /\ IdleLocal /\ IdleChat /\ IdleHaversine /\ IdleNotify /\ IdleToken

\* POST /create-payment: one INSERT with the price the client sent.
\* booking_ref is UNIQUE: a repeated uuid makes the INSERT fail, and the
\* handler, which catches nothing, sends no answer.
PgCreatePayment(bookingRef, price, payment_type) ==
    /\ IF bookingRef \in DOMAIN pgBookings
       THEN /\ UNCHANGED pgBookings
            /\ pgResp' = [op |-> "create-payment", code |-> 0,
                          signed |-> FALSE, kind |-> "none", dispatch |-> "none"]
       ELSE /\ pgBookings' = pgBookings @@ (bookingRef :>
                   [price |-> price,
                    payment_type |-> payment_type,
                    payment_status |-> "pending",
                    status |-> "new",
                    amount_paid |-> <<>>])
            /\ pgResp' = [op |-> "create-payment", code |-> 200,
                          signed |-> FALSE, kind |-> "none", dispatch |-> "none"]
    /\ UNCHANGED <<pgEmails, pgDispatched, pgConfigured, pgDeliveries>>
    /\ UNCHANGED notPg

\* What the optional TaxiCaller block meets: "skipped" when TaxiCaller is
\* not configured, "dispatched" when the token and order calls and the
\* UPDATE succeed, "failed" when one of them throws.
PgDispatchOutcome(configured, dispatchOk) ==
    IF ~configured THEN "skipped"
    ELSE IF dispatchOk THEN "dispatched" ELSE "failed"

\* PgAfterDispatch for a handler that undoes the payment when the dispatch
\* fails.
PgAfterDispatchRollback(row, outcome) ==
    IF outcome = "dispatched" THEN [row EXCEPT !.status = "dispatched"]
    ELSE IF outcome = "failed"
         THEN [row EXCEPT !.payment_status = "pending", !.amount_paid = <<>>]
         ELSE row

\* The booking row after the TaxiCaller block: status 'dispatched' once the
\* order is posted; a failure is caught and logged, and the row stays as
\* the payment left it.
PgAfterDispatch(row, outcome) ==
    IF outcome = "dispatched" THEN [row EXCEPT !.status = "dispatched"] ELSE row

\* PgMarkPaid for a handler that goes on without the UPDATE.
PgMarkPaidSkipped(row, amount) == row

\* UPDATE bookings SET payment_status='paid', amount_paid=$1
\*   WHERE booking_ref=$2
PgMarkPaid(row, amount) ==
    [row EXCEPT !.payment_status = "paid", !.amount_paid = <<amount>>]

\* POST /square/webhook.  signed: the delivery carries a signature header
\* that matches its body (the handler never reads the header).  emailOk:
\* sgMail.send succeeds.
\* dispatchOk: the TaxiCaller token and order calls succeed.
PgSquareWebhook(signed, event, emailOk, dispatchOk) ==
    LET parsed == event # Malformed
        bookingRef == ParseBookingRef(event.note)
        outcome == PgDispatchOutcome(pgConfigured, dispatchOk)
        answer(code, dispatch) ==
            [op |-> "webhook", code |-> code, signed |-> signed,
             kind |-> EventKind(event), dispatch |-> dispatch]
        paid(row) == PgMarkPaid(row, event.amount)
    IN
    /\ pgDeliveries < MaxDeliveries
    /\ pgDeliveries' = pgDeliveries + 1
    /\ UNCHANGED pgConfigured
    /\ UNCHANGED notPg
    /\ IF ~parsed
       THEN /\ pgResp' = answer(500, "none")
            /\ UNCHANGED <<pgBookings, pgEmails, pgDispatched>>
       ELSE IF \/ PgIgnored(event)
               \/ bookingRef = NULL
               \/ bookingRef \notin DOMAIN pgBookings
       THEN /\ pgResp' = answer(200, "none")
            /\ UNCHANGED <<pgBookings, pgEmails, pgDispatched>>
       ELSE IF ~emailOk
       THEN /\ pgBookings' = [pgBookings EXCEPT ![bookingRef] = paid(@)]
            /\ pgResp' = answer(500, "none")
            /\ UNCHANGED <<pgEmails, pgDispatched>>
       ELSE /\ pgEmails' = [pgEmails EXCEPT ![bookingRef] = @ + 1]
            /\ pgResp' = answer(200, outcome)
            /\ pgBookings' = [pgBookings EXCEPT
                   ![bookingRef] = PgAfterDispatch(paid(@), outcome)]
            /\ pgDispatched' =
                   IF outcome = "dispatched"
                   THEN [pgDispatched EXCEPT ![bookingRef] = @ + 1]
                   ELSE pgDispatched

NextPg ==
    \/ \E r \in Refs, price \in Prices, t \in PaymentTypes :
          PgCreatePayment(r, price, t)
    \/ \E signed \in BOOLEAN, event \in Events \cup {Malformed},
          emailOk \in BOOLEAN, dispatchOk \in BOOLEAN :
          PgSquareWebhook(signed, event, emailOk, dispatchOk)

(***************************************************************************)
(* Multi-area payment server                                               *)
(***************************************************************************)
PayDriverLimit == 1500
DepositPercent == 10

\* Number((price * 0.1).toFixed(2)), in pence.
Deposit(price) == ToFixed2(price * DepositPercent)

\* The amount /create-payment charges for a booking.
ChargeAmount(price, payment_type) ==
    IF payment_type = "deposit" THEN Deposit(price) ELSE price

AreaPrices == {PayDriverLimit, PgCalculatePrice}

\* process.env.SQUARE_WEBHOOK_SIGNATURE_KEY, and a key that is not it.
SignatureKey == "square-key"
OtherKey == "other-key"

\* crypto.createHmac("sha1", key).update(rawBody).digest("base64"): a value
\* that is equal for equal key and body and for nothing else.
Hmac(key, rawBody) == <<"hmac-sha1", key, rawBody>>

\* The header is absent.
NoSignature == <<>>

\* verifySquareSignature(rawBody, signature)
VerifySquareSignature(rawBody, signature) ==
    Hmac(SignatureKey, rawBody) = signature

\* What the webhook handler demands of a delivery before it reads it.
SignatureAccepted(rawBody, signature) ==
    signature # NoSignature /\ VerifySquareSignature(rawBody, signature)

\* The early returns of the multi-area webhook: the event is not
\* payment.updated, or its payment is not COMPLETED.
AreaIgnored(event) ==
    event.type # "payment.updated" \/ event.status # "COMPLETED"

\* payment.note is the booking id the checkout was created with.
AreaEvents ==
    [type : EventTypes, status : PaymentStatuses,
     note : AreaIds \cup {UnknownAreaId}, amount : Amounts]

\* The signature headers a delivery of rawBody may carry.
Signatures(rawBody) ==
    {NoSignature, Hmac(SignatureKey, rawBody), Hmac(OtherKey, rawBody),
     Hmac(SignatureKey, Malformed)}

InitArea ==
    /\ arBookings = <<>>
    /\ arEmails = [r \in AreaIds \cup {UnknownAreaId} |-> 0]
    /\ arCheckouts = {}
    /\ arDeliveries = 0
    /\ arResp = [op |-> "none", code |-> 0, signed |-> FALSE, kind |-> "none"]
    /\ arQuote = [op |-> "none", area |-> "", pickup |-> <<>>, dropoff |-> <<>>,
                  geocoded |-> FALSE, routed |-> 0, code |-> 0,
                  fixed |-> FALSE, miles |-> <<>>, price |-> <<>>]
    /\ IdleLite /\ IdlePg /\ IdleQuote /\ IdleInstant /\ IdleFare
    /\ IdleLocal /\ IdleChat /\ IdleHaversine /\ IdleNotify /\ IdleToken

\* saveBooking + POST /create-payment.  The client names the booking id; a
\* repeated id makes the INSERT fail and the handler answers 500.
\* squareOk: the Square payment-link call succeeds.
AreaCreatePayment(booking_id, price, payment_type, squareOk) ==
    LET answer(code) == [op |-> "create-payment", code |-> code,
                         signed |-> FALSE, kind |-> "none"]
        row == [price_gbp |-> price, payment_type |-> payment_type,
                status |-> "pending", amount_paid |-> <<>>]
    IN
    /\ IF booking_id \in DOMAIN arBookings
       THEN /\ arResp' = answer(500)
            /\ UNCHANGED <<arBookings, arCheckouts>>
       ELSE /\ arBookings' = arBookings @@ (booking_id :> row)
            /\ IF price <= PayDriverLimit
               THEN /\ arResp' = answer(200)
                    /\ UNCHANGED arCheckouts
               ELSE IF squareOk
               THEN /\ arCheckouts' = arCheckouts \cup
                           {[note |-> booking_id,
                             amount |-> ChargeAmount(price, payment_type)]}
                    /\ arResp' = answer(200)
               ELSE /\ arResp' = answer(500)
                    /\ UNCHANGED arCheckouts
    /\ UNCHANGED <<arEmails, arDeliveries, arQuote>>
    /\ UNCHANGED notArea

\* markBookingPaid(id, amount): UPDATE bookings SET status = 'paid',
\* amount_paid = amount WHERE id = id.
MarkBookingPaid(rows, id, amount) ==
    [b \in DOMAIN rows |->
        IF b = id
        THEN [rows[b] EXCEPT !.status = "paid", !.amount_paid = <<amount>>]
        ELSE rows[b]]

\* POST /square/webhook of the multi-area server.  buyerEmail: the payment
\* carries buyer_email_address.  emailOk: sgMail.send succeeds.
AreaSquareWebhook(signature, rawBody, buyerEmail, emailOk) ==
    LET answer(code) == [op |-> "webhook", code |-> code,
                         signed |-> SignatureAccepted(rawBody, signature),
                         kind |-> EventKind(rawBody)]
    IN
    /\ arDeliveries < MaxDeliveries
    /\ arDeliveries' = arDeliveries + 1
    /\ UNCHANGED <<arCheckouts, arQuote>>
    /\ UNCHANGED notArea
    /\ IF ~SignatureAccepted(rawBody, signature)
       THEN /\ arResp' = answer(401)
            /\ UNCHANGED <<arBookings, arEmails>>
       ELSE IF rawBody = Malformed
       THEN /\ arResp' = answer(500)
            /\ UNCHANGED <<arBookings, arEmails>>
       ELSE IF AreaIgnored(rawBody)
       THEN /\ arResp' = answer(200)
            /\ UNCHANGED <<arBookings, arEmails>>
       ELSE /\ arBookings' = MarkBookingPaid(arBookings, rawBody.note, rawBody.amount)
            /\ IF ~buyerEmail
               THEN /\ arResp' = answer(200)
                    /\ UNCHANGED arEmails
               ELSE IF emailOk
               THEN /\ arEmails' = [arEmails EXCEPT ![rawBody.note] = @ + 1]
                    /\ arResp' = answer(200)
               ELSE /\ arResp' = answer(500)
                    /\ UNCHANGED arEmails

\* AREAS: the fare rules of each service area, prices in pence.
AREAS ==
    [kendal |->
        [minFare |-> 420, perMile |-> 220,
         airportFares |-> << [match |-> "manchester", price |-> 12000],
                             [match |-> "liverpool", price |-> 13200],
                             [match |-> "leeds", price |-> 9800] >>],
     lancaster |->
        [minFare |-> 450, perMile |-> 230,
         airportFares |-> << [match |-> "manchester", price |-> 9500],
                             [match |-> "liverpool", price |-> 11000],
                             [match |-> "leeds", price |-> 10500] >>]]

\* AREAS[areaKey] || AREAS.kendal
AreaOf(areaKey) ==
    IF areaKey \in DOMAIN AREAS THEN AREAS[areaKey] ELSE AREAS.kendal

\* The distance calculateMiles returns when the routing call fails.
SafeFallbackMiles == 10

\* calculateMiles once both addresses are geocoded, in thousandths of a
\* mile: the routed distance, or the safe fallback when the call failed.
AreaCalculateMiles(routed) ==
    IF routed > 0 THEN routed ELSE SafeFallbackMiles * 1000

\* The first airport rule of the area that the pickup or the dropoff
\* matches, 0 when none does.
AreaFixedRule(area, pickup, dropoff) ==
    LET p == ToLowerCase(pickup)
        d == ToLowerCase(dropoff)
        hits == {i \in 1..Len(area.airportFares) :
                    \/ Includes(p, area.airportFares[i].match)
                    \/ Includes(d, area.airportFares[i].match)}
    IN  IF hits = {} THEN 0 ELSE CHOOSE i \in hits : \A j \in hits : i <= j

\* Number((max(area.minFare, miles * area.perMile) * (1 + VAT_RATE)).toFixed(2)),
\* in pence, for miles in thousandths.
AreaDistanceTotal(area, miles) ==
    (Max2(area.minFare * 1000, miles * area.perMile) * (100 + VatPercent)
        + 50000) \div 100000

\* calculatePrice(areaKey, pickup, dropoff) when nothing throws.
AreaCalculatePrice(areaKey, pickup, dropoff, routed) ==
    LET area == AreaOf(areaKey)
        rule == AreaFixedRule(area, pickup, dropoff)
        miles == AreaCalculateMiles(routed)
    IN  IF rule # 0
        THEN [fixed |-> TRUE, miles |-> <<>>,
              price |-> <<FixedTotal(area.airportFares[rule].price)>>]
        ELSE [fixed |-> FALSE, miles |-> <<MilesToFixed2(miles)>>,
              price |-> <<AreaDistanceTotal(area, miles)>>]

AreaKeys == {"kendal", "lancaster", "penrith"}
AreaPickups == {<<>>, <<"Kendal">>, <<"Lancaster">>, <<"Manchester", "Airport">>}
AreaDropoffs == {<<"Windermere">>, <<"Manchester", "Airport">>}

\* POST /quote of the multi-area server.  A missing address makes
\* toLowerCase throw; every error is answered 422.  geocoded: geocodeUK
\* finds both addresses.  routed: the distance the routing call answers
\* with, 0 when it fails.
AreaQuote(areaKey, pickup, dropoff, geocoded, routed) ==
    LET result == AreaCalculatePrice(areaKey, pickup, dropoff, routed)
        answer(code, fixed, miles, price) ==
            [op |-> "quote", area |-> areaKey, pickup |-> pickup,
             dropoff |-> dropoff, geocoded |-> geocoded, routed |-> routed,
             code |-> code, fixed |-> fixed, miles |-> miles, price |-> price]
    IN
    /\ IF pickup = <<>> \/ dropoff = <<>>
       THEN arQuote' = answer(422, FALSE, <<>>, <<>>)
       ELSE IF AreaFixedRule(AreaOf(areaKey), pickup, dropoff) = 0 /\ ~geocoded
       THEN arQuote' = answer(422, FALSE, <<>>, <<>>)
       ELSE arQuote' = answer(200, result.fixed, result.miles, result.price)
    /\ UNCHANGED <<arBookings, arEmails, arCheckouts, arDeliveries, arResp>>
    /\ UNCHANGED notArea

\* /quote reads and writes nothing of the bookings: its requests are
\* explored on their own.
NextAreaQuote ==
    \E areaKey \in AreaKeys, pickup \in AreaPickups,
       dropoff \in AreaDropoffs, geocoded \in BOOLEAN,
       routed \in RouteOutcomes :
       AreaQuote(areaKey, pickup, dropoff, geocoded, routed)

NextArea ==
    \/ \E id \in AreaIds, price \in AreaPrices, t \in PaymentTypes,
          squareOk \in BOOLEAN : AreaCreatePayment(id, price, t, squareOk)
    \/ \E rawBody \in AreaEvents \cup {Malformed}, buyerEmail \in BOOLEAN,
          emailOk \in BOOLEAN :
          \E signature \in Signatures(rawBody) :
              AreaSquareWebhook(signature, rawBody, buyerEmail, emailOk)

(***************************************************************************)
(* Stateless quote/book server                                             *)
(* Miles are in thousandths of a mile.                                     *)
(***************************************************************************)
\* An address is a sequence of words; <<>> is a missing one.
Pickups == {<<"Kendal">>, <<"Manchester", "Airport">>, <<>>}
Dropoffs == {<<"Windermere">>, <<"Manchester", "Airport">>,
             <<"Liverpool", "Airport">>}

\* FIXED_AIRPORT_FARES, prices in pence.
FIXED_AIRPORT_FARES ==
    << [match |-> "manchester", price |-> 12000],
       [match |-> "liverpool", price |-> 13200],
       [match |-> "leeds", price |-> 9800] >>

\* The first rule of the table that the pickup or the dropoff matches, 0
\* when none does.
FixedRule(pickup, dropoff) ==
    LET p == ToLowerCase(pickup)
        d == ToLowerCase(dropoff)
        hits == {i \in 1..Len(FIXED_AIRPORT_FARES) :
                    \/ Includes(p, FIXED_AIRPORT_FARES[i].match)
                    \/ Includes(d, FIXED_AIRPORT_FARES[i].match)}
    IN  IF hits = {} THEN 0 ELSE CHOOSE i \in hits : \A j \in hits : i <= j

\* Number((max(MIN_FARE, miles * LOCAL_PER_MILE) * (1 + VAT_RATE)).toFixed(2)),
\* in pence, for miles in thousandths.
DistanceTotal(miles) ==
    (Max2(MinFarePence * 1000, miles * PerMilePence) * (100 + VatPercent)
        + 50000) \div 100000

\* haversineMiles between the geocoded points of two places: the
\* great-circle distance, by table.
HaversineMiles(from, to) ==
    IF from = to THEN 0
    ELSE IF <<"Manchester", "Airport">> \in {from, to} THEN 60000 ELSE 7000

\* calculateMiles once both addresses are geocoded: the routed distance,
\* or straight-line + buffer (x 1.25) when routing gave none.
CalculateMiles(from, to, routed) ==
    IF routed > 0 THEN routed ELSE (HaversineMiles(from, to) * 125) \div 100

\* The body of a /quote answer.
QuoteBody(pickup, dropoff, geocoded, routed) ==
    LET rule == FixedRule(pickup, dropoff)
        miles == CalculateMiles(pickup, dropoff, routed)
    IN  IF rule # 0
        THEN [pickup |-> pickup, dropoff |-> dropoff, fixed |-> TRUE,
              miles |-> <<>>,
              price_gbp_inc_vat |-> FixedTotal(FIXED_AIRPORT_FARES[rule].price)]
        ELSE [pickup |-> pickup, dropoff |-> dropoff, fixed |-> FALSE,
              miles |-> <<MilesToFixed2(miles)>>,
              price_gbp_inc_vat |-> DistanceTotal(miles)]

InitQuote ==
    /\ qIssued = {}
    /\ qBooked = {}
    /\ qResp = [op |-> "none", code |-> 0]
    /\ IdleLite /\ IdlePg /\ IdleArea /\ IdleInstant /\ IdleFare
    /\ IdleLocal /\ IdleChat /\ IdleHaversine /\ IdleNotify /\ IdleToken

\* POST /quote.  An address may be missing (<<>>).  geocoded: geocodeUK
\* finds both addresses.  routed: the answer of routeMilesORS.
Quote(pickup, dropoff, geocoded, routed) ==
    /\ Cardinality(qIssued) < MaxQuotes
    /\ IF pickup = <<>> \/ dropoff = <<>>
       THEN /\ qResp' = [op |-> "quote", code |-> 400]
            /\ UNCHANGED qIssued
       ELSE IF FixedRule(pickup, dropoff) = 0 /\ ~geocoded
       THEN /\ qResp' = [op |-> "quote", code |-> 422]
            /\ UNCHANGED qIssued
       ELSE /\ qResp' = [op |-> "quote", code |-> 200]
            /\ qIssued' = qIssued \cup {QuoteBody(pickup, dropoff, geocoded, routed)}
    /\ UNCHANGED qBooked
    /\ UNCHANGED notQuote

\* What /book demands of a request body before it accepts it.
BookRequestOk(body) ==
    /\ body.pickup # <<>> /\ body.dropoff # <<>>
    /\ body.name /\ body.phone
    /\ body.price_is_number

\* POST /book.  name, phone: the field is present; price_is_number:
\* typeof price_gbp_inc_vat === "number".  emailOk: sgMail.send succeeds.
Book(body, emailOk) ==
    /\ Cardinality(qBooked) < MaxBooked
    /\ IF ~BookRequestOk(body)
       THEN /\ qResp' = [op |-> "book", code |-> 400]
            /\ UNCHANGED qBooked
       ELSE IF body.email /\ ~emailOk
       THEN /\ qResp' = [op |-> "book", code |-> 500]
            /\ UNCHANGED qBooked
       ELSE /\ qResp' = [op |-> "book", code |-> 200]
            /\ qBooked' = qBooked \cup
                   {[pickup |-> body.pickup, dropoff |-> body.dropoff,
                     price_gbp_inc_vat |-> body.price_gbp_inc_vat]}
    /\ UNCHANGED qIssued
    /\ UNCHANGED notQuote

\* The prices a client may submit: those of the quotes, and one a penny off.
BookPrices ==
    {DistanceTotal(1234), DistanceTotal(1234) + 1,
     FixedTotal(FIXED_AIRPORT_FARES[1].price)}

BookBodies ==
    [pickup : Pickups, dropoff : Dropoffs, name : BOOLEAN,
     phone : {TRUE}, email : BOOLEAN, price_is_number : BOOLEAN,
     price_gbp_inc_vat : BookPrices]

NextQuote ==
    \/ \E pickup \in Pickups, dropoff \in Dropoffs,
          geocoded \in BOOLEAN, routed \in RouteOutcomes :
          Quote(pickup, dropoff, geocoded, routed)
    \/ \E body \in BookBodies, emailOk \in BOOLEAN : Book(body, emailOk)

(***************************************************************************)
(* Server that books without a payment provider                            *)
(***************************************************************************)
\* req.body.service_area
ServiceAreas == {"kendal", "lancaster"}

\* The places a quote is asked for.
InstantDropoffs == {<<>>, <<"Windermere">>, <<"Manchester", "Airport">>,
                    <<"Leeds">>, <<"Liverpool", "via", "Manchester">>}

\* The prices of /quote, in pence: 25 unless the dropoff names an airport
\* city; of several cities the last one tested decides.
InstantQuotePrice(dropoff, service_area) ==
    LET d == ToLowerCase(dropoff)
        p0 == 2500
        p1 == IF Includes(d, "manchester")
              THEN (IF service_area = "lancaster" THEN 8500 ELSE 7500) ELSE p0
        p2 == IF Includes(d, "liverpool")
              THEN (IF service_area = "lancaster" THEN 9500 ELSE 8500) ELSE p1
    IN  IF Includes(d, "leeds")
        THEN (IF service_area = "lancaster" THEN 8000 ELSE 7000) ELSE p2

InitInstant ==
    /\ icBookings = <<>>
    /\ icEmails = [r \in Refs |-> 0]
    /\ icResp = [op |-> "none", code |-> 0, price |-> 0]
    /\ IdleLite /\ IdlePg /\ IdleArea /\ IdleQuote /\ IdleFare
    /\ IdleLocal /\ IdleChat /\ IdleHaversine /\ IdleNotify /\ IdleToken

\* POST /quote of the server that books without a payment provider.
InstantQuote(pickup, dropoff, service_area) ==
    /\ IF pickup = <<>> \/ dropoff = <<>>
       THEN icResp' = [op |-> "quote", code |-> 400, price |-> 0]
       ELSE icResp' = [op |-> "quote", code |-> 200,
                       price |-> InstantQuotePrice(dropoff, service_area)]
    /\ UNCHANGED <<icBookings, icEmails>>
    /\ UNCHANGED notInstant

\* POST /create-payment of the same server: one INSERT with amount_paid set
\* to the submitted price and payment_status 'paid', then the confirmation
\* emails.  booking_ref is UNIQUE: a repeated uuid makes the INSERT fail,
\* and the handler, which catches nothing, sends no answer; so it does
\* when sgMail.send fails (emailOk is FALSE).
InstantCreatePayment(bookingRef, price, payment_type, emailOk) ==
    LET answer(code) == [op |-> "create-payment", code |-> code, price |-> price]
    IN
    /\ IF bookingRef \in DOMAIN icBookings
       THEN /\ icResp' = answer(0)
            /\ UNCHANGED <<icBookings, icEmails>>
       ELSE /\ icBookings' = icBookings @@ (bookingRef :>
                   [price |-> price,
                    payment_type |-> payment_type,
                    amount_paid |-> <<price>>,
                    payment_status |-> "paid",
                    status |-> "new"])
            /\ IF emailOk
               THEN /\ icEmails' = [icEmails EXCEPT ![bookingRef] = @ + 1]
                    /\ icResp' = answer(200)
               ELSE /\ icResp' = answer(0)
                    /\ UNCHANGED icEmails
    /\ UNCHANGED notInstant

NextInstant ==
    \/ \E pickup \in Pickups, dropoff \in InstantDropoffs,
          service_area \in ServiceAreas :
          InstantQuote(pickup, dropoff, service_area)
    \/ \E r \in Refs, price \in Prices, t \in PaymentTypes, emailOk \in BOOLEAN :
          InstantCreatePayment(r, price, t, emailOk)

(***************************************************************************)
(* Metered fare calculators                                                *)
(* A pickup time is <<>> when absent, else <<t>> with t the minutes from    *)
(* local midnight of the first day; miles are in thousandths of a mile.    *)
(***************************************************************************)
NightStartHour == 23
\* NIGHT_MULTIPLIER 1.5, in tenths.
NightMultiplierTenths == 15
\* MIN_FARE_GBP of the SQLite server, in pence.
LiteMinFarePence == 800

\* new Date(iso).getHours(): the hour of the day in local time.
GetHours(t) == (t \div 60) % 24

\* 22:59, 23:00, 23:59, 00:00 and 12:00 of the next day, and no time.
FareTimes == {<<>>, <<0>>, <<1379>>, <<1380>>, <<1439>>, <<1440>>, <<2160>>}
FareMiles == {0, 1000, 1234, 9876, 21000, 86004}

\* LocalIsNight with > for >=.
LocalIsNightAfter(pickup_time_iso) ==
    pickup_time_iso # <<>> /\ GetHours(pickup_time_iso[1]) > NightStartHour

\* if (pickup_time_iso) { hour = getHours(); if (hour >= NIGHT_START_HOUR) }
LocalIsNight(pickup_time_iso) ==
    pickup_time_iso # <<>> /\ GetHours(pickup_time_iso[1]) >= NightStartHour

\* calculateLocalFare(miles, pickup_time_iso), in pence:
\* Math.round(max(MIN_FARE, miles * LOCAL_PRICE_PER_MILE) * multiplier * 100) / 100
CalculateLocalFare(miles, pickup_time_iso) ==
    LET price == Max2(MinFarePence * 1000, miles * PerMilePence)
        tenths == IF LocalIsNight(pickup_time_iso) THEN NightMultiplierTenths ELSE 10
    IN  (price * tenths + 5000) \div 10000

\* parseMoney(n) of a number of miles: Math.round(v * 100) / 100, in
\* hundredths.
ParseMoney(miles) == (miles + 5) \div 10

\* hourLocal(iso) throws on a date that does not parse; a missing
\* pickup_time_iso is such a date.
HourLocalThrows(pickup_time_iso) == pickup_time_iso = <<>>

\* isNight(pickupISO): hourLocal(pickupISO) >= NIGHT_START_HOUR
IsNight(pickupISO) == GetHours(pickupISO[1]) >= NightStartHour

\* quoteFareGBP({miles, pickup_time_iso}): base, multiplier (in tenths) and
\* total, in pence; ok is FALSE when it throws.
QuoteFareGBP(miles, pickup_time_iso) ==
    IF HourLocalThrows(pickup_time_iso)
    THEN [fn |-> "quoteFareGBP", ok |-> FALSE, multiplier |-> 0, total |-> 0]
    ELSE LET base == Max2(LiteMinFarePence * 100, ParseMoney(miles) * PerMilePence)
             multiplier == IF IsNight(pickup_time_iso)
                           THEN NightMultiplierTenths ELSE 10
         IN  [fn |-> "quoteFareGBP", ok |-> TRUE, multiplier |-> multiplier,
              total |-> (base * multiplier + 500) \div 1000]

\* The arguments are drawn; no calculator has run.
InitFare ==
    /\ fareIn \in [miles : FareMiles, pickup_time_iso : FareTimes]
    /\ fareOut = NoFare
    /\ IdleLite /\ IdlePg /\ IdleArea /\ IdleQuote /\ IdleInstant
    /\ IdleLocal /\ IdleChat /\ IdleHaversine /\ IdleNotify /\ IdleToken

\* calculateLocalFare applied to the arguments.
ApplyCalculateLocalFare ==
    /\ fareOut' = [fn |-> "calculateLocalFare", ok |-> TRUE,
                   multiplier |-> 0,
                   total |-> CalculateLocalFare(fareIn.miles, fareIn.pickup_time_iso)]
    /\ UNCHANGED fareIn
    /\ UNCHANGED notFare

\* The quote_fare tool: quoteFareGBP applied to the arguments.
ApplyQuoteFareGBP ==
    /\ fareOut' = QuoteFareGBP(fareIn.miles, fareIn.pickup_time_iso)
    /\ UNCHANGED fareIn
    /\ UNCHANGED notFare

NextFare ==
    \/ ApplyCalculateLocalFare
    \/ ApplyQuoteFareGBP

(***************************************************************************)
(* Quote server with fixed routes and a night rate                         *)
(***************************************************************************)
\* FIXED_ROUTE_FARES, prices in pence.
FIXED_ROUTE_FARES ==
    << [from |-> <<"Lancaster">>, to |-> <<"Manchester", "Airport">>, price |-> 9000],
       [from |-> <<"Kendal">>, to |-> <<"Manchester", "Airport">>, price |-> 12000],
       [from |-> <<"Kendal">>, to |-> <<"Leeds", "Bradford", "Airport">>, price |-> 9800],
       [from |-> <<"Lancaster">>, to |-> <<"Leeds", "Bradford", "Airport">>, price |-> 11100],
       [from |-> <<"Kendal">>, to |-> <<"Liverpool", "John", "Lennon", "Airport">>,
        price |-> 13200],
       [from |-> <<"Lancaster">>, to |-> <<"Liverpool", "John", "Lennon", "Airport">>,
        price |-> 10200] >>

\* address.includes(phrase), for a phrase of one or more words.
IncludesPhrase(address, phrase) ==
    \E i \in 1..Len(address) :
        /\ i + Len(phrase) - 1 <= Len(address)
        /\ SubSeq(address, i, i + Len(phrase) - 1) = phrase

\* FixedRouteMatches for a table that is read from pickup to dropoff only.
FixedRouteMatchesOneWay(r, p, d) ==
    LET from == ToLowerCase(r.from)
        to == ToLowerCase(r.to)
    IN  IncludesPhrase(p, from) /\ IncludesPhrase(d, to)

\* Whether rule r of FIXED_ROUTE_FARES holds of a lower-cased pickup p and
\* dropoff d: the route in either direction.
FixedRouteMatches(r, p, d) ==
    LET from == ToLowerCase(r.from)
        to == ToLowerCase(r.to)
    IN  \/ IncludesPhrase(p, from) /\ IncludesPhrase(d, to)
        \/ IncludesPhrase(p, to) /\ IncludesPhrase(d, from)

\* getFixedRouteFare(pickup, dropoff): <<price>> of the first rule that
\* matches, <<>> for null.
GetFixedRouteFare(pickup, dropoff) ==
    LET p == ToLowerCase(pickup)
        d == ToLowerCase(dropoff)
        hits == {i \in 1..Len(FIXED_ROUTE_FARES) :
                    FixedRouteMatches(FIXED_ROUTE_FARES[i], p, d)}
    IN  IF hits = {} THEN <<>>
        ELSE <<FIXED_ROUTE_FARES[CHOOSE i \in hits : \A j \in hits : i <= j].price>>

LocalPickups == {<<>>, <<"Kendal">>, <<"Manchester", "Airport">>,
                 <<"KENDAL", "Station">>, <<"Kendal", "or", "Lancaster">>}
LocalDropoffs == {<<>>, <<"Windermere">>, <<"Manchester", "Airport">>,
                  <<"Kendal">>}

\* Math.round(miles * 10) / 10, in tenths of a mile.
RoundMilesTenths(miles) == (miles + 50) \div 100

InitLocal ==
    /\ lqResp = [op |-> "none", code |-> 0, pickup |-> <<>>, dropoff |-> <<>>,
                 pickup_time_iso |-> <<>>, lookups |-> FALSE,
                 fixed |-> FALSE, miles |-> <<>>, price_gbp |-> <<>>]
    /\ IdleLite /\ IdlePg /\ IdleArea /\ IdleQuote /\ IdleInstant
    /\ IdleFare /\ IdleChat /\ IdleHaversine /\ IdleNotify /\ IdleToken

\* POST /quote.  geocoded: Nominatim finds both places.  routed: the
\* distance OSRM answers with, 0 for no route.  lookups: getMiles was
\* called.
LocalQuote(pickup, dropoff, pickup_time_iso, geocoded, routed) ==
    LET fixedFare == GetFixedRouteFare(pickup, dropoff)
        answer(code, lookups, fixed, miles, price) ==
            [op |-> "quote", code |-> code, pickup |-> pickup,
             dropoff |-> dropoff, pickup_time_iso |-> pickup_time_iso,
             lookups |-> lookups, fixed |-> fixed, miles |-> miles,
             price_gbp |-> price]
    IN
    /\ IF pickup = <<>> \/ dropoff = <<>>
       THEN lqResp' = answer(400, FALSE, FALSE, <<>>, <<>>)
       ELSE IF fixedFare # <<>>
       THEN lqResp' = answer(200, FALSE, TRUE, <<>>, fixedFare)
       ELSE IF ~geocoded \/ routed = 0
       THEN lqResp' = answer(500, TRUE, FALSE, <<>>, <<>>)
       ELSE lqResp' = answer(200, TRUE, FALSE, <<RoundMilesTenths(routed)>>,
                             <<CalculateLocalFare(routed, pickup_time_iso)>>)
    /\ UNCHANGED notLocal

NextLocal ==
    \E pickup \in LocalPickups, dropoff \in LocalDropoffs,
       pickup_time_iso \in FareTimes, geocoded \in BOOLEAN,
       routed \in RouteOutcomes :
       LocalQuote(pickup, dropoff, pickup_time_iso, geocoded, routed)

(***************************************************************************)
(* Scripted chat booking server                                            *)
(* A message is the sequence of its words; miles are in tenths of a mile.  *)
(***************************************************************************)
\* MIN_FARE_GBP of the chat server, in pence.
ChatMinFarePence == 800

\* req.headers.origin || "default"
ChatKeys == {"https://tttaxis.uk", "default"}

\* What newBookingRef() may return: TTT- and a random five-digit number.
ChatRefs == {"TTT-10000", "TTT-54321"}

\* What a customer may send: a route, an answer, their name and mobile
\* number, or something else.
ChatMessages(customer) ==
    { <<"Kendal", "to", "Manchester", "Airport", "22:59", "25/12/2025">>,
      <<"Kendal", "to", "Manchester", "Airport", "23:00", "25/12/2025">>,
      <<"Kendal", "to", "Windermere">>,
      <<"yes">>, <<"no">>, <<"Alice", customer>>, <<"hello">> }

\* \d{1,2}:\d{2}
IsClockTime(w) == w \in {"22:59", "23:00"}
\* \d{2}\/\d{2}\/\d{4}
IsDate(w) == w \in {"25/12/2025"}
\* (\+44\s?7\d{3}\s?\d{6}|07\d{9})
IsPhone(w) == w \in Customers

\* The local time of day of `${year}-${month}-${day}T${time}:00`, in minutes.
ClockMinutes(w) ==
    CASE w = "22:59" -> 1379
      [] w = "23:00" -> 1380
      [] OTHER -> 0

\* extractRouteAndTime(text): <<>> for null, else <<[pickup, dropoff,
\* pickup_time_iso]>>.  The route is (.+?)\s+to\s+(.+?)(\s|$) on the
\* lower-cased text: the words before the first "to" and the one word
\* after it.
ExtractRouteAndTime(text) ==
    LET lower == ToLowerCase(text)
        tos == {i \in 2..(Len(lower) - 1) : lower[i] = "to"}
        td == {j \in 1..(Len(lower) - 1) :
                  IsClockTime(lower[j]) /\ IsDate(lower[j + 1])}
    IN  IF tos = {} THEN <<>>
        ELSE LET i == CHOOSE i \in tos : \A k \in tos : i <= k
             IN  << [pickup |-> SubSeq(lower, 1, i - 1),
                     dropoff |-> <<lower[i + 1]>>,
                     pickup_time_iso |->
                        IF td = {} THEN <<>>
                        ELSE <<ClockMinutes(lower[CHOOSE j \in td :
                                                     \A k \in td : j <= k])>>] >>

\* isYes(text): /^(yes|yep|yeah|ok|okay|confirm|book)/i
IsYes(text) ==
    Len(text) > 0 /\ Head(text) \in {"yes", "yep", "yeah", "ok", "okay", "confirm", "book"}

\* isNo(text): /^(no|cancel|stop)/i
IsNo(text) == Len(text) > 0 /\ Head(text) \in {"no", "cancel", "stop"}

\* extractNamePhone(text) finds a phone number.
HasNamePhone(text) == \E i \in 1..Len(text) : IsPhone(text[i])

\* extractNamePhone(text).phone: the first phone number of the text.
ExtractPhone(text) ==
    text[CHOOSE i \in 1..Len(text) :
            IsPhone(text[i]) /\ \A j \in 1..(i - 1) : ~IsPhone(text[j])]

\* getMiles rounds to one decimal: Math.round(miles * 10) / 10, in tenths.
ChatMiles(routed) == (routed + 50) \div 100

\* calculateFareGBP(miles, isoTime), in pence, for miles in tenths.
CalculateFareGBP(miles, isoTime) ==
    LET price == Max2(ChatMinFarePence * 10, miles * PerMilePence)
        tenths == IF isoTime # <<>> /\ GetHours(isoTime[1]) >= NightStartHour
                  THEN NightMultiplierTenths ELSE 10
    IN  (price * tenths + 50) \div 100

InitChat ==
    /\ chPending = <<>>
    /\ chBookings = <<>>
    /\ chReply = "none"
    /\ chShown = [c \in Customers |-> <<>>]
    /\ IdleLite /\ IdlePg /\ IdleArea /\ IdleQuote /\ IdleInstant
    /\ IdleFare /\ IdleLocal /\ IdleHaversine /\ IdleNotify /\ IdleToken

\* MapDelete for a handler that leaves the entry in the Map.
MapDeleteKept(map, key) == map

\* pending.delete(key)
MapDelete(map, key) == [k \in DOMAIN map \ {key} |-> map[k]]

\* pending.set(key, value)
MapSet(map, key, value) ==
    [k \in DOMAIN map \cup {key} |-> IF k = key THEN value ELSE map[k]]

\* POST /chat.  customer: who sends the request.  key: the session key,
\* the Origin header of the request or "default".  last: the content of the
\* last message.  geocoded, routed: what Nominatim and OSRM answer.  ref:
\* what newBookingRef() returns.  Every error ends in the reply "Sorry".
Chat(customer, key, last, geocoded, routed, ref) ==
    LET extracted == ExtractRouteAndTime(last)
    IN
    /\ Len(chBookings) < MaxChatBookings
    /\ UNCHANGED notChat
    /\ IF extracted # <<>>
       THEN IF ~geocoded \/ routed = 0
            THEN /\ chReply' = "sorry"
                 /\ UNCHANGED <<chPending, chBookings, chShown>>
            ELSE LET miles == ChatMiles(routed)
                     price == CalculateFareGBP(miles, extracted[1].pickup_time_iso)
                 IN  /\ chPending' = MapSet(chPending, key,
                            [pickup |-> extracted[1].pickup,
                             dropoff |-> extracted[1].dropoff,
                             pickup_time_iso |-> extracted[1].pickup_time_iso,
                             miles |-> miles, price |-> price])
                     /\ chReply' = "quote"
                     /\ chShown' = [chShown EXCEPT ![customer] =
                            <<[pickup |-> extracted[1].pickup,
                               dropoff |-> extracted[1].dropoff,
                               price |-> price]>>]
                     /\ UNCHANGED chBookings
       ELSE IF IsNo(last)
       THEN /\ chPending' = MapDelete(chPending, key)
            /\ chReply' = "cancelled"
            /\ chShown' = [chShown EXCEPT ![customer] = <<>>]
            /\ UNCHANGED chBookings
       ELSE IF IsYes(last)
       THEN /\ chReply' = IF key \in DOMAIN chPending
                          THEN "ask-name-phone" ELSE "ask-route"
            /\ UNCHANGED <<chPending, chBookings, chShown>>
       ELSE IF HasNamePhone(last) /\ key \in DOMAIN chPending
       THEN /\ chBookings' =
                   << [id |-> ref,
                       pickup |-> chPending[key].pickup,
                       dropoff |-> chPending[key].dropoff,
                       pickup_time_iso |-> chPending[key].pickup_time_iso,
                       price_gbp |-> chPending[key].price,
                       customer_phone |-> ExtractPhone(last),
                       status |-> "NEW"] >> \o chBookings
            /\ chPending' = MapDelete(chPending, key)
            /\ chReply' = "booked"
            /\ chShown' = [chShown EXCEPT ![customer] = <<>>]
       ELSE /\ chReply' = "help"
            /\ UNCHANGED <<chPending, chBookings, chShown>>

\* One customer talking to the chat, under either session key, with every
\* answer of the map services and every reference.
NextChat ==
    \E customer \in {"07700900001"}, key \in ChatKeys, geocoded \in BOOLEAN,
       routed \in RouteOutcomes, ref \in ChatRefs :
       \E last \in ChatMessages(customer) :
          Chat(customer, key, last, geocoded, routed, ref)

\* Two customers talking to the chat in any order, the map services
\* answering every request.
NextChatSessions ==
    \E customer \in Customers, key \in ChatKeys,
       routed \in RouteOutcomes \ {0} :
       \E last \in ChatMessages(customer) :
          Chat(customer, key, last, TRUE, routed, "TTT-10000")

(***************************************************************************)
(* Straight-line quote server                                              *)
(* Miles are in thousandths of a mile.                                     *)
(***************************************************************************)
\* FIXED_AIRPORT_FARES of the straight-line server, prices in pence.
HvFixedAirportFares ==
    << [from |-> "kendal", to |-> "manchester", price |-> 12000],
       [from |-> "lancaster", to |-> "manchester", price |-> 9000],
       [from |-> "kendal", to |-> "leeds", price |-> 9800],
       [from |-> "lancaster", to |-> "leeds", price |-> 11100],
       [from |-> "kendal", to |-> "liverpool", price |-> 13200],
       [from |-> "lancaster", to |-> "liverpool", price |-> 10200] >>

\* The first rule whose from the pickup includes and whose to the
\* dropoff includes, 0 when there is none.
HvFixedRule(pickup, dropoff) ==
    LET pickupLc == ToLowerCase(pickup)
        dropoffLc == ToLowerCase(dropoff)
        hits == {i \in 1..Len(HvFixedAirportFares) :
                    /\ Includes(pickupLc, HvFixedAirportFares[i].from)
                    /\ Includes(dropoffLc, HvFixedAirportFares[i].to)}
    IN  IF hits = {} THEN 0 ELSE CHOOSE i \in hits : \A j \in hits : i <= j

\* What geocodeUK may find for an address: nothing (it throws "Location
\* not found"), or a point, given by its position along a road.
GeocodeOutcomes == {<<>>, <<0>>, <<7000>>}

\* haversineMiles(a, b) of two such points.
HvHaversineMiles(a, b) == IF a >= b THEN a - b ELSE b - a

InitHaversine ==
    /\ hvResp = [op |-> "none", code |-> 0, pickup |-> <<>>, dropoff |-> <<>>,
                 from |-> <<>>, to |-> <<>>,
                 fixed |-> FALSE, miles |-> <<>>, price_gbp |-> <<>>]
    /\ IdleLite /\ IdlePg /\ IdleArea /\ IdleQuote /\ IdleInstant
    /\ IdleFare /\ IdleLocal /\ IdleChat /\ IdleNotify /\ IdleToken

\* POST /quote of the straight-line server.  from, to: what geocodeUK
\* finds for the pickup and for the dropoff.
HvQuote(pickup, dropoff, from, to) ==
    LET rule == HvFixedRule(pickup, dropoff)
        answer(code, fixed, miles, price) ==
            [op |-> "quote", code |-> code, pickup |-> pickup,
             dropoff |-> dropoff, from |-> from, to |-> to,
             fixed |-> fixed, miles |-> miles, price_gbp |-> price]
    IN
    /\ IF pickup = <<>> \/ dropoff = <<>>
       THEN hvResp' = answer(400, FALSE, <<>>, <<>>)
       ELSE IF rule # 0
       THEN hvResp' = answer(200, TRUE, <<>>,
                             <<FixedTotal(HvFixedAirportFares[rule].price)>>)
       ELSE IF from = <<>> \/ to = <<>>
       THEN hvResp' = answer(500, FALSE, <<>>, <<>>)
       ELSE LET miles == HvHaversineMiles(from[1], to[1])
            IN  hvResp' = answer(200, FALSE, <<MilesToFixed2(miles)>>,
                                 <<DistanceTotal(miles)>>)
    /\ UNCHANGED notHaversine

NextHaversine ==
    \E pickup \in LocalPickups, dropoff \in LocalDropoffs,
       from \in GeocodeOutcomes, to \in GeocodeOutcomes :
       HvQuote(pickup, dropoff, from, to)

(***************************************************************************)
(* Payment server without a database                                       *)
(***************************************************************************)
\* The bookings this server has stored: it has no database and no file,
\* so there are none.
NsStore == <<>>

\* payment.note of an event, reduced to its "Booking <id>" line: the id,
\* or "" when the note has no such line.
NsNotes == AreaIds \cup {""}

\* getValue("Booking") || "TTTAXIS"
NsBookingRef(note) == IF note = "" THEN DefaultRef ELSE note

NsEvents ==
    [type : EventTypes, status : PaymentStatuses, note : NsNotes,
     amount : {PgCalculatePrice}]

InitNotify ==
    /\ nsCheckouts = {}
    /\ nsEmails = [r \in AreaIds \cup {DefaultRef} |-> 0]
    /\ nsDeliveries = 0
    /\ nsResp = [op |-> "none", code |-> 0, price |-> 0,
                 pay_driver |-> FALSE, deposit_available |-> FALSE,
                 payment_mode |-> "none"]
    /\ IdleLite /\ IdlePg /\ IdleArea /\ IdleQuote /\ IdleInstant
    /\ IdleFare /\ IdleLocal /\ IdleChat /\ IdleHaversine /\ IdleToken

\* PayDriver for a server that takes a card payment from 15 pounds on.
PayDriverBelow(price) == price < PayDriverLimit

\* result.price <= 15 of /quote and price_gbp_inc_vat <= 15 of
\* /create-payment: the fare is paid to the driver.
PayDriver(price) == price <= PayDriverLimit

\* result.price > 15: a card payment, in full or as a deposit, is offered.
DepositAvailable(price) == price > PayDriverLimit

\* An answer of the server without a store to a request that is no quote
\* and no payment.
NsAnswer(op, code) ==
    [op |-> op, code |-> code, price |-> 0, pay_driver |-> FALSE,
     deposit_available |-> FALSE, payment_mode |-> "none"]

\* POST /quote: calculatePrice and the payment rules of the price.
\* geocoded: geocodeUK finds both addresses.  routed: the answer of the
\* routing call.
NsQuote(pickup, dropoff, geocoded, routed) ==
    /\ IF pickup = <<>> \/ dropoff = <<>>
       THEN nsResp' = NsAnswer("quote", 400)
       ELSE IF FixedRule(pickup, dropoff) = 0 /\ ~geocoded
       THEN nsResp' = NsAnswer("quote", 422)
       ELSE LET price == QuoteBody(pickup, dropoff, geocoded, routed).price_gbp_inc_vat
            IN  nsResp' = [op |-> "quote", code |-> 200, price |-> price,
                           pay_driver |-> PayDriver(price),
                           deposit_available |-> DepositAvailable(price),
                           payment_mode |-> "none"]
    /\ UNCHANGED <<nsCheckouts, nsEmails, nsDeliveries>>
    /\ UNCHANGED notNotify

\* POST /create-payment: nothing is stored; a payment link is created at
\* Square with the booking in its note.  email: the request names one.
\* squareOk: the Square payment-link call succeeds.
NsCreatePayment(booking_id, email, price, payment_type, squareOk) ==
    LET answer(code, mode) ==
            [op |-> "create-payment", code |-> code, price |-> price,
             pay_driver |-> FALSE, deposit_available |-> FALSE,
             payment_mode |-> mode]
    IN
    /\ IF ~email
       THEN /\ nsResp' = answer(400, "none")
            /\ UNCHANGED nsCheckouts
       ELSE IF PayDriver(price)
       THEN /\ nsResp' = answer(200, "pay_driver")
            /\ UNCHANGED nsCheckouts
       ELSE IF squareOk
       THEN /\ nsCheckouts' = nsCheckouts \cup
                   {[note |-> booking_id,
                     amount |-> ChargeAmount(price, payment_type)]}
            /\ nsResp' = answer(200, "card")
       ELSE /\ nsResp' = answer(500, "none")
            /\ UNCHANGED nsCheckouts
    /\ UNCHANGED <<nsEmails, nsDeliveries>>
    /\ UNCHANGED notNotify

\* POST /square/webhook: for a completed payment the booking is read from
\* the payment note and sendBookingEmails is called; nothing is written.
\* emailOk: sgMail.send succeeds.
NsSquareWebhook(event, emailOk) ==
    /\ nsDeliveries < MaxDeliveries
    /\ nsDeliveries' = nsDeliveries + 1
    /\ UNCHANGED nsCheckouts
    /\ UNCHANGED notNotify
    /\ IF event = Malformed
       THEN /\ nsResp' = NsAnswer("webhook", 500)
            /\ UNCHANGED nsEmails
       ELSE IF PgIgnored(event)
       THEN /\ nsResp' = NsAnswer("webhook", 200)
            /\ UNCHANGED nsEmails
       ELSE IF emailOk
       THEN /\ nsEmails' = [nsEmails EXCEPT ![NsBookingRef(event.note)] = @ + 1]
            /\ nsResp' = NsAnswer("webhook", 200)
       ELSE /\ nsResp' = NsAnswer("webhook", 500)
            /\ UNCHANGED nsEmails

\* The prices a client submits: the limit, one penny more, and a quoted one.
NsPrices == AreaPrices \cup {PayDriverLimit + 1}

NextNotify ==
    \/ \E pickup \in Pickups, dropoff \in Dropoffs,
          geocoded \in BOOLEAN, routed \in RouteOutcomes :
          NsQuote(pickup, dropoff, geocoded, routed)
    \/ \E id \in AreaIds, email \in BOOLEAN, price \in NsPrices,
          t \in PaymentTypes, squareOk \in BOOLEAN :
          NsCreatePayment(id, email, price, t, squareOk)
    \/ \E event \in NsEvents \cup {Malformed}, emailOk \in BOOLEAN :
          NsSquareWebhook(event, emailOk)

(***************************************************************************)
(* TaxiCaller token cache                                                  *)
(* Times are in seconds; the clock of the server is that of the provider.  *)
(* A token is the number of its place among the tokens issued.             *)
(***************************************************************************)
\* The clock runs to MaxClock in steps of ClockStep seconds.
MaxClock == 150
ClockStep == 30
\* The provider issues at most MaxTokens tokens.
MaxTokens == 2
\* At most MaxCalls calls wait for the provider at once.
MaxCalls == 2

\* The 60 of (res.data.expires_in - 60).
TokenMargin == 60

\* res.data.expires_in, in seconds.
ExpiresIn == {30, 60, 120}

\* taxiCallerTokenExpires for a cache that keeps no margin.
TokenExpiresNoMargin(start, expires_in) == start + expires_in

\* now + (res.data.expires_in - 60) * 1000, with now (start) and the result
\* in seconds.
TokenExpires(start, expires_in) == start + (expires_in - TokenMargin)

\* taxiCallerToken && now < taxiCallerTokenExpires
TokenCached == taxiCallerToken # NoToken /\ tcNow < taxiCallerTokenExpires

\* The time at which the provider stops taking token k.
ValidUntil(k) == tcIssued[k].issued_at + tcIssued[k].expires_in

InitToken ==
    /\ IdleToken
    /\ IdleLite /\ IdlePg /\ IdleArea /\ IdleQuote /\ IdleInstant
    /\ IdleFare /\ IdleLocal /\ IdleChat /\ IdleHaversine /\ IdleNotify

\* Time passes, also while calls wait for the provider.
TokenTick ==
    /\ tcNow < MaxClock
    /\ tcNow' = tcNow + ClockStep
    /\ UNCHANGED <<taxiCallerToken, taxiCallerTokenExpires, tcCalls, tcIssued,
                   tcReturned>>
    /\ UNCHANGED notToken

\* getTaxiCallerToken() up to its await: now is read, and either the cached
\* token is returned or the request for a new one is sent.
GetTaxiCallerToken ==
    /\ IF TokenCached
       THEN /\ tcReturned' = [token |-> taxiCallerToken, at |-> tcNow,
                              cached |-> TRUE,
                              expires |-> taxiCallerTokenExpires]
            /\ UNCHANGED tcCalls
       ELSE /\ Cardinality(tcCalls) < MaxCalls
            /\ \A c \in tcCalls : c.now # tcNow
            /\ tcCalls' = tcCalls \cup {[now |-> tcNow, token |-> NoToken]}
            /\ UNCHANGED tcReturned
    /\ UNCHANGED <<tcNow, taxiCallerToken, taxiCallerTokenExpires, tcIssued>>
    /\ UNCHANGED notToken

\* The provider answers the request of call c with a new token that it
\* takes for expires_in seconds from now.
ProviderIssues(c, expires_in) ==
    /\ c.token = NoToken
    /\ Len(tcIssued) < MaxTokens
    /\ tcIssued' = Append(tcIssued, [issued_at |-> tcNow, expires_in |-> expires_in])
    /\ tcCalls' = (tcCalls \ {c}) \cup {[c EXCEPT !.token = Len(tcIssued) + 1]}
    /\ UNCHANGED <<tcNow, taxiCallerToken, taxiCallerTokenExpires, tcReturned>>
    /\ UNCHANGED notToken

\* getTaxiCallerToken() after its await: the answer has arrived; the token
\* and its expiry, counted from the now of the call, are recorded and the
\* token is returned.
TokenFetched(c) ==
    /\ c.token # NoToken
    /\ taxiCallerToken' = c.token
    /\ taxiCallerTokenExpires' = TokenExpires(c.now, tcIssued[c.token].expires_in)
    /\ tcReturned' = [token |-> c.token, at |-> tcNow, cached |-> FALSE,
                      expires |-> taxiCallerTokenExpires']
    /\ tcCalls' = tcCalls \ {c}
    /\ UNCHANGED <<tcNow, tcIssued>>
    /\ UNCHANGED notToken

\* axios.post throws: the call ends with the error and records nothing.
TokenFetchFails(c) ==
    /\ tcCalls' = tcCalls \ {c}
    /\ UNCHANGED <<tcNow, taxiCallerToken, taxiCallerTokenExpires, tcIssued,
                   tcReturned>>
    /\ UNCHANGED notToken

NextToken ==
    \/ TokenTick
    \/ GetTaxiCallerToken
    \/ \E c \in tcCalls, expires_in \in ExpiresIn : ProviderIssues(c, expires_in)
    \/ \E c \in tcCalls : TokenFetched(c)
    \/ \E c \in tcCalls : TokenFetchFails(c)

(***************************************************************************)
(* Specifications                                                          *)
(***************************************************************************)
SpecLite == InitLite /\ [][NextLite]_vars

SpecPg == InitPg /\ [][NextPg]_vars

SpecArea == InitArea /\ [][NextArea]_vars

SpecQuote == InitQuote /\ [][NextQuote]_vars

SpecInstant == InitInstant /\ [][NextInstant]_vars

SpecFare == InitFare /\ [][NextFare]_vars

SpecAreaQuote == InitArea /\ [][NextAreaQuote]_vars

SpecLocal == InitLocal /\ [][NextLocal]_vars

SpecChat == InitChat /\ [][NextChat]_vars

SpecChatSessions == InitChat /\ [][NextChatSessions]_vars

SpecHaversine == InitHaversine /\ [][NextHaversine]_vars

SpecNotify == InitNotify /\ [][NextNotify]_vars

SpecToken == InitToken /\ [][NextToken]_vars

(***************************************************************************)
(* Claims                                                                  *)
(***************************************************************************)

\* The time window [start_ts, end_ts) of a stored booking, in minutes:
\* it starts at the pickup time and lasts duration_minutes, 60 when the
\* duration is unknown.
StartTs(b) == bookings[b].pickup_time_iso
EndTs(b) ==
    StartTs(b) + (IF bookings[b].duration_minutes = <<>>
                  THEN 60 ELSE bookings[b].duration_minutes[1])

\* existing.start < new.end AND existing.end > new.start
Overlaps(a, b) == StartTs(a) < EndTs(b) /\ EndTs(a) > StartTs(b)

ActiveDrivers == {d \in DOMAIN drivers : drivers[d] = 1}

\* C1: no two bookings assigned to the same driver have overlapping
\* [start_ts, end_ts) windows.  /admin/assign-driver checks no window, so
\* the SQLite server violates it.
C1_NoOverlapPerDriver ==
    \A a, b \in DOMAIN assignments :
        (a # b /\ assignments[a].driver_id = assignments[b].driver_id)
            => ~Overlaps(a, b)

\* C2: delivering the same completed-payment event twice triggers exactly
\* one confirmation email: no booking ever has more than one.  The Postgres
\* webhook marks and notifies on every delivery, so it violates it.
C2_SingleNotification == \A r \in Refs : pgEmails[r] <= 1

\* C3: a webhook delivery without a matching signature is answered 401 and
\* changes no booking, sends no email and triggers no dispatch.  The
\* Postgres webhook never reads the signature, so it violates it.
C3_BadSignatureRejected ==
    [][(pgDeliveries' # pgDeliveries /\ ~pgResp'.signed)
          => /\ pgResp'.code = 401
             /\ UNCHANGED <<pgBookings, pgEmails, pgDispatched>>]_vars

\* C3, multi-area server: the same statement holds of the webhook that
\* calls verifySquareSignature.
C3_AreaBadSignatureRejected ==
    [][(arDeliveries' # arDeliveries /\ ~arResp'.signed)
          => /\ arResp'.code = 401
             /\ UNCHANGED <<arBookings, arEmails, arCheckouts>>]_vars

\* C4: no booking record exists whose price differs from the price the
\* server computes for it.  /create-payment stores the submitted price
\* unchecked, so the Postgres server violates it.
C4_BookedAtServerPrice ==
    \A r \in DOMAIN pgBookings : pgBookings[r].price = PgCalculatePrice

\* C5: with a single active driver, two booking requests for an identical
\* time window are never both given a booking.  create_booking_lead
\* refuses nothing, so the SQLite server violates it.
C5_OneBookingPerDriverSlot ==
    Cardinality(ActiveDrivers) = 1
        => \A a, b \in DOMAIN bookings :
              a # b => ~(StartTs(a) = StartTs(b) /\ EndTs(a) = EndTs(b))

\* C6: verification succeeds for a quote as issued and fails once a field
\* is changed: every booking payload the server accepts is a quote it
\* issued.  /book checks no signature and no price, so it violates it.
C6_AcceptedOnlyAsQuoted ==
    \A b \in qBooked :
        \E q \in qIssued :
            /\ q.pickup = b.pickup
            /\ q.dropoff = b.dropoff
            /\ q.price_gbp_inc_vat = b.price_gbp_inc_vat

\* C7: a booking record exists if and only if its driver reservation
\* exists.  create_booking_lead writes a booking and no reservation, so
\* the SQLite server violates it.
C7_BookingIffReservation == DOMAIN bookings = DOMAIN assignments

\* C7, the half that holds: every reservation belongs to a stored booking.
C7_ReservationHasBooking == DOMAIN assignments \subseteq DOMAIN bookings

\* C8: a webhook event that is not a payment event in the COMPLETED state
\* is acknowledged with 200 and changes no booking, sends no email and
\* triggers no dispatch.
C8_InterimEventNoChange ==
    [][(pgDeliveries' # pgDeliveries /\ pgResp'.kind = "interim")
          => /\ pgResp'.code = 200
             /\ UNCHANGED <<pgBookings, pgEmails, pgDispatched>>]_vars

\* C8, witness: an interim event has been acknowledged while a booking was
\* waiting for its payment.
C8_Witness ==
    /\ pgResp.op = "webhook" /\ pgResp.kind = "interim" /\ pgResp.code = 200
    /\ \E r \in DOMAIN pgBookings : pgBookings[r].payment_status = "pending"

\* C8, multi-area server: the same statement of its webhook.
C8_AreaInterimEventNoChange ==
    [][(arDeliveries' # arDeliveries /\ arResp'.signed
            /\ arResp'.kind = "interim")
          => /\ arResp'.code = 200
             /\ UNCHANGED <<arBookings, arEmails, arCheckouts>>]_vars

\* The order of the statuses of the SQLite server in a booking's life.
StatusRank(status) ==
    CASE status = "NEW" -> 0
      [] status = "CUSTOMER_CONFIRMED" -> 1
      [] status = "DRIVER_ASSIGNED" -> 2
      [] status = "CANCEL_REQUESTED" -> 3

\* C9: transitions are one-directional: once a booking's status has
\* advanced to assigned, no event moves it back to an earlier status.  A
\* customer reply overwrites DRIVER_ASSIGNED with CUSTOMER_CONFIRMED, so the
\* SQLite server violates it.
C9_StatusNeverMovesBack ==
    [][\A b \in DOMAIN bookings :
          bookings[b].status = "DRIVER_ASSIGNED"
              => StatusRank(bookings'[b].status) >= StatusRank(bookings[b].status)]_vars

\* C9, the half that holds: once payment_status is paid it stays paid.
C9_PaidStaysPaid ==
    [][\A r \in DOMAIN pgBookings :
          pgBookings[r].payment_status = "paid"
              => pgBookings'[r].payment_status = "paid"]_vars

\* C10: a booking is paid only if the completed event's amount is the
\* amount due for it (the price, or its deposit).  The webhook compares no
\* amount, so the Postgres server violates it.
C10_PaidAmountMatches ==
    \A r \in DOMAIN pgBookings :
        pgBookings[r].payment_status = "paid"
            => pgBookings[r].amount_paid =
                  <<ChargeAmount(pgBookings[r].price, pgBookings[r].payment_type)>>

\* C11: every booking is created with payment status pending, and only a
\* completed payment event makes it paid.  /create-payment of the server
\* that books without a payment provider inserts the booking as 'paid', so
\* that server violates it.
C11_CreatedPending ==
    [][\A r \in DOMAIN icBookings' :
          r \notin DOMAIN icBookings
              => icBookings'[r].payment_status = "pending"]_vars

\* C11, Postgres server: a booking comes into being pending, and it turns
\* paid only in the handling of a completed payment event.
C11_PgPaidOnlyByCompletedEvent ==
    [][\A r \in DOMAIN pgBookings' :
          /\ r \notin DOMAIN pgBookings
                => pgBookings'[r].payment_status = "pending"
          /\ (r \in DOMAIN pgBookings
                /\ pgBookings[r].payment_status # "paid"
                /\ pgBookings'[r].payment_status = "paid")
                => (pgResp'.op = "webhook" /\ pgResp'.kind = "completed"
                    /\ pgDeliveries' = pgDeliveries + 1)]_vars

\* C11, multi-area server: the same statement of its status column.
C11_AreaPaidOnlyByCompletedEvent ==
    [][\A r \in DOMAIN arBookings' :
          /\ r \notin DOMAIN arBookings
                => arBookings'[r].status = "pending"
          /\ (r \in DOMAIN arBookings
                /\ arBookings[r].status # "paid"
                /\ arBookings'[r].status = "paid")
                => (arResp'.op = "webhook" /\ arResp'.kind = "completed"
                    /\ arResp'.signed)]_vars

\* C12: when the TaxiCaller dispatch fails in the handling of a completed
\* payment, the payment confirmation stands: the booking is paid, no
\* booking's status changes (none is set to dispatched), no order is
\* counted, and the webhook is acknowledged with 200.
C12_DispatchFailureKeepsPaid ==
    [][(pgDeliveries' # pgDeliveries /\ pgResp'.dispatch = "failed")
          => /\ pgResp'.code = 200
             /\ UNCHANGED pgDispatched
             /\ \A r \in DOMAIN pgBookings :
                   pgBookings'[r].status = pgBookings[r].status
             /\ \E r \in DOMAIN pgBookings :
                   /\ pgEmails'[r] = pgEmails[r] + 1
                   /\ pgBookings'[r].payment_status = "paid"]_vars

\* C12, witness: a delivery whose dispatch failed left a booking paid and
\* not dispatched.
C12_Witness ==
    /\ pgResp.op = "webhook" /\ pgResp.dispatch = "failed"
    /\ \E r \in DOMAIN pgBookings :
          /\ pgBookings[r].payment_status = "paid"
          /\ pgBookings[r].status = "new"
          /\ pgEmails[r] > 0

\* C13: once a webhook delivery has passed signature verification and been
\* parsed, the handler answers 200 whatever happens next; the only other
\* answer is 401 for a bad signature.  The multi-area webhook answers 500
\* when the confirmation email cannot be sent, so it violates it.
C13_VerifiedAlways200 ==
    arResp.op = "webhook"
        => IF ~arResp.signed
           THEN arResp.code = 401
           ELSE arResp.kind # "malformed" => arResp.code = 200

\* The pickup time falls at or after 23:00 of its day.
AtOrAfterNightStart(pickup_time_iso) ==
    /\ pickup_time_iso # <<>>
    /\ pickup_time_iso[1] % 1440 >= 23 * 60

\* The metered fare before any multiplier, in thousandths of a penny, for
\* a minimum fare in pence and miles in thousandths.
MeteredThousandths(minFare, miles) ==
    IF miles * PerMilePence >= minFare * 1000
    THEN miles * PerMilePence ELSE minFare * 1000

\* C14: a metered fare is multiplied by the night multiplier (1.5) if and
\* only if the pickup time's local hour is at or after 23: 22:59 is not
\* multiplied, 23:00 is, and a fare without a pickup time is not.
C14_NightMultiplierIffLate ==
    /\ (fareOut.fn = "calculateLocalFare" /\ fareOut.ok) =>
          LET m == MeteredThousandths(420, fareIn.miles)
          IN  fareOut.total =
                 IF AtOrAfterNightStart(fareIn.pickup_time_iso)
                 THEN (m * 3 + 1000) \div 2000
                 ELSE (m + 500) \div 1000
    /\ (fareOut.fn = "quoteFareGBP" /\ fareOut.ok) =>
          LET m == MeteredThousandths(800, ((fareIn.miles + 5) \div 10) * 10)
          IN  /\ fareOut.multiplier =
                    IF AtOrAfterNightStart(fareIn.pickup_time_iso) THEN 15 ELSE 10
              /\ fareOut.total =
                    IF AtOrAfterNightStart(fareIn.pickup_time_iso)
                    THEN (m * 3 + 1000) \div 2000
                    ELSE (m + 500) \div 1000

\* C14, witness: a 23:00 pickup has been priced above the minimum fare by
\* calculateLocalFare.
C14_Witness ==
    /\ fareOut.fn = "calculateLocalFare"
    /\ fareIn.pickup_time_iso = <<1380>>
    /\ fareIn.miles = 9876
    /\ fareOut.total = 3259

\* C15: the night multiplier is never applied to a fixed zone fare: on
\* every quoting path, quotes for the same pair that a zone-override rule
\* matches carry the same price whatever the pickup time.  The chat flow
\* knows no zone and prices an airport run by the mile with the night
\* multiplier, so it violates it.
C15_FixedZoneSamePriceAnyTime ==
    \A k1, k2 \in DOMAIN chPending :
        (/\ chPending[k1].pickup = chPending[k2].pickup
         /\ chPending[k1].dropoff = chPending[k2].dropoff
         /\ chPending[k1].miles = chPending[k2].miles
         /\ FixedRule(chPending[k1].pickup, chPending[k1].dropoff) # 0)
            => chPending[k1].price = chPending[k2].price

\* C15, /quote of the server with fixed routes: the price of a fixed
\* route is the price of its rule, at every pickup time.
C15_LocalFixedFareAnyTime ==
    (lqResp.op = "quote" /\ lqResp.fixed)
        => \E i \in 1..Len(FIXED_ROUTE_FARES) :
              lqResp.price_gbp = <<FIXED_ROUTE_FARES[i].price>>

\* C16: if either the pickup or the dropoff matches a zone of the fixed
\* fare table after case-folding, the quote is fixed, has no distance, is
\* made without geocoding or routing, and its price is a zone price times
\* (1 + VAT).  Here for /quote of the server with fixed routes, the zones
\* being the airports its rules name: getFixedRouteFare wants both ends of
\* a rule and returns the price without VAT, so it violates it.
C16_EitherEndZoneIsFixed ==
    (lqResp.op = "quote" /\ lqResp.pickup # <<>> /\ lqResp.dropoff # <<>>)
        => \A i \in 1..Len(FIXED_ROUTE_FARES) :
              LET zone == ToLowerCase(FIXED_ROUTE_FARES[i].to)
              IN  (\/ IncludesPhrase(ToLowerCase(lqResp.pickup), zone)
                   \/ IncludesPhrase(ToLowerCase(lqResp.dropoff), zone))
                     => /\ lqResp.code = 200
                        /\ lqResp.fixed
                        /\ lqResp.miles = <<>>
                        /\ ~lqResp.lookups
                        /\ \E j \in 1..Len(FIXED_ROUTE_FARES) :
                              lqResp.price_gbp =
                                 <<FixedTotal(FIXED_ROUTE_FARES[j].price)>>

\* C16, /quote of the quote and booking server: a quote for a pair of
\* which either end matches a rule of FIXED_AIRPORT_FARES is fixed, has no
\* distance and costs the rule's price times (1 + VAT).
C16_QuoteEitherEndZoneIsFixed ==
    \A q \in qIssued :
        (\E i \in 1..Len(FIXED_AIRPORT_FARES) :
            \/ Includes(ToLowerCase(q.pickup), FIXED_AIRPORT_FARES[i].match)
            \/ Includes(ToLowerCase(q.dropoff), FIXED_AIRPORT_FARES[i].match))
            => /\ q.fixed
               /\ q.miles = <<>>
               /\ \E i \in 1..Len(FIXED_AIRPORT_FARES) :
                     q.price_gbp_inc_vat =
                        (FIXED_AIRPORT_FARES[i].price * 120) \div 100

\* C17: when the routing call fails and both addresses geocode, the quote
\* succeeds and its distance is the great-circle distance between the two
\* points times 1.25.  Here for /quote of the multi-area server, whose
\* calculateMiles returns a constant 10 miles instead, so it violates it.
C17_AreaRoutingFailureUsesGreatCircle ==
    (/\ arQuote.op = "quote"
     /\ arQuote.pickup # <<>> /\ arQuote.dropoff # <<>>
     /\ AreaFixedRule(AreaOf(arQuote.area), arQuote.pickup, arQuote.dropoff) = 0
     /\ arQuote.geocoded /\ arQuote.routed = 0)
        => /\ arQuote.code = 200
           /\ arQuote.miles =
                 <<MilesToFixed2(
                     (HaversineMiles(arQuote.pickup, arQuote.dropoff) * 125)
                        \div 100)>>

\* C17, /quote of the quote and booking server: the distance of every
\* metered quote is a distance the routing call answered with or the
\* great-circle distance of the pair times 1.25.
C17_QuoteRoutedOrGreatCircle ==
    \A q \in qIssued :
        ~q.fixed
            => \/ \E r \in RouteOutcomes \ {0} : q.miles = <<MilesToFixed2(r)>>
               \/ q.miles =
                     <<MilesToFixed2(
                         (HaversineMiles(q.pickup, q.dropoff) * 125) \div 100)>>

\* C18: when no fixed fare rule matches and geocoding fails for the pickup
\* or for the dropoff, the quote is refused with a 4xx answer and carries
\* no price.  Here for /quote of the straight-line server, which answers
\* 500, so it violates it.
C18_GeocodeFailureIs4xx ==
    (/\ hvResp.op = "quote"
     /\ hvResp.pickup # <<>> /\ hvResp.dropoff # <<>>
     /\ HvFixedRule(hvResp.pickup, hvResp.dropoff) = 0
     /\ (hvResp.from = <<>> \/ hvResp.to = <<>>))
        => /\ hvResp.code \in 400..499
           /\ hvResp.price_gbp = <<>>

\* C18, /quote of the quote and booking server: a quote request that is
\* not answered 200 is answered 4xx and issues no quote.
C18_QuoteRefusedIs4xx ==
    [][(qResp'.op = "quote" /\ qResp'.code # 200)
          => (qResp'.code \in 400..499 /\ qIssued' = qIssued)]_vars

\* C19: two quote requests for the same pickup and dropoff return the
\* same price whatever the routing call does: a quote priced on the
\* fallback distance, made when the routing call failed, costs what every
\* other quote for the pair costs.  /quote prices the routed distance when
\* the call succeeds and the straight-line distance times 1.25 when it
\* fails, so it violates it.
C19_SameInputsSamePrice ==
    \A q1, q2 \in qIssued :
        (/\ q1.pickup = q2.pickup /\ q1.dropoff = q2.dropoff
         /\ ~q1.fixed
         /\ q1.miles =
               <<MilesToFixed2(
                   (HaversineMiles(q1.pickup, q1.dropoff) * 125) \div 100)>>)
            => q1.price_gbp_inc_vat = q2.price_gbp_inc_vat

\* C19, fixed fares: two fixed quotes for the same pickup and dropoff cost
\* the same, whatever the geocoder and the routing call would have done.
C19_FixedQuoteSamePrice ==
    \A q1, q2 \in qIssued :
        (q1.pickup = q2.pickup /\ q1.dropoff = q2.dropoff /\ q1.fixed)
            => q1.price_gbp_inc_vat = q2.price_gbp_inc_vat

\* C20: booking identifiers are unique: no two stored bookings share a
\* booking reference.  The chat server takes each reference from
\* newBookingRef(), a random five-digit number, and stores the booking
\* without looking for the reference in bookings.json, so it violates it.
C20_BookingIdsUnique ==
    \A i, j \in 1..Len(chBookings) :
        i # j => chBookings[i].id # chBookings[j].id

\* C20, /create-payment of the multi-area server: a request never
\* replaces a stored booking; one that names the id of a stored booking
\* is refused by the primary key.
C20_AreaCreateKeepsExisting ==
    [][arResp'.op = "create-payment"
          => \A b \in DOMAIN arBookings :
                b \in DOMAIN arBookings' /\ arBookings'[b] = arBookings[b]]_vars

\* C21: no confirmation email is sent for a booking before the booking is
\* stored with payment_status paid.  Here for the webhook of the server
\* without a database, which sends the emails for whatever booking the
\* payment note names and stores nothing, so it violates it.
C21_NotifyOnlyStoredPaid ==
    \A r \in DOMAIN nsEmails :
        nsEmails[r] > 0
            => r \in DOMAIN NsStore /\ NsStore[r].payment_status = "paid"

\* C21, Postgres server: a booking for which the emails were sent or the
\* fleet order was posted is stored as paid.
C21_PgNotifiedIsPaid ==
    \A r \in Refs :
        (pgEmails[r] > 0 \/ pgDispatched[r] > 0)
            => r \in DOMAIN pgBookings /\ pgBookings[r].payment_status = "paid"

\* C21, server that books without a payment provider: a booking for which
\* the emails were sent is stored as paid.
C21_InstantNotifiedIsPaid ==
    \A r \in DOMAIN icEmails :
        icEmails[r] > 0
            => r \in DOMAIN icBookings /\ icBookings[r].payment_status = "paid"

\* C22: no metered quote is below the minimum fare with VAT added, the
\* base fare being max(minimum fare, miles x rate per mile) before VAT.
\* quoteFareGBP adds no VAT: its total for a short daytime journey is the
\* bare minimum fare, so it violates it.
C22_MeteredAtLeastMinFareWithVat ==
    (fareOut.fn = "quoteFareGBP" /\ fareOut.ok)
        => fareOut.total * 100 >= LiteMinFarePence * (100 + VatPercent)

\* C22, /quote of the quote and booking server: a metered quote is at
\* least the minimum fare with VAT.
C22_QuoteAtLeastMinFareWithVat ==
    \A q \in qIssued :
        ~q.fixed => q.price_gbp_inc_vat * 100 >= MinFarePence * (100 + VatPercent)

\* C22, calculatePrice of the multi-area server: a metered quote is at
\* least the area's minimum fare with VAT.
C22_AreaAtLeastMinFareWithVat ==
    (arQuote.op = "quote" /\ arQuote.code = 200 /\ ~arQuote.fixed)
        => arQuote.price[1] * 100
              >= AreaOf(arQuote.area).minFare * (100 + VatPercent)

\* C23: a booking has at most one assigned driver: an accepted
\* /admin/assign-driver leaves the booking with one assignment row, that of
\* the driver named in the request, whether or not the booking had a driver
\* before, and touches the assignment of no other booking.
C23_AssignReplaces ==
    [][\A token \in {t \in AdminTokens : AdminOk(t)},
          b \in DOMAIN bookings, d \in DriverIds :
          (AssignDriverAccepts(token, b, d) /\ AssignDriver(token, b, d))
              => /\ DOMAIN assignments' = DOMAIN assignments \cup {b}
                 /\ assignments'[b].driver_id = d
                 /\ \A c \in DOMAIN assignments \ {b} :
                       assignments'[c] = assignments[c]]_vars

\* C23: a booking made at time 0 holds the assignment of a request made at
\* time 1, and both bookings are assigned, to different drivers.
C23_Witness ==
    /\ DOMAIN assignments = BookingIds
    /\ \E b \in BookingIds :
          /\ bookings[b].created_at_iso = 0
          /\ assignments[b].assigned_at_iso = 1
    /\ \E b, c \in BookingIds :
          assignments[b].driver_id # assignments[c].driver_id

\* C24: no assignment to an inactive driver is ever committed: the driver
\* of every assignment has is_active = 1.  /admin/assign-driver looks the
\* driver up by driver_id alone and never reads is_active, so the SQLite
\* server violates it.
C24_AssignedDriverIsActive ==
    \A b \in DOMAIN assignments :
        drivers[assignments[b].driver_id] = 1

\* C25: every booking's status is one of new, assigned, dispatched,
\* completed, cancelled; a payment outcome is never written into the
\* status field.  The multi-area server has no payment_status column: it
\* stores 'pending' and, by markBookingPaid, 'paid' in status, so it
\* violates it.
C25_AreaStatusInRange ==
    \A b \in DOMAIN arBookings :
        arBookings[b].status \in
            {"new", "assigned", "dispatched", "completed", "cancelled"}

\* C25, Postgres server: payment_status is pending, paid or failed and
\* status is new, assigned, dispatched, completed or cancelled.
C25_PgFieldsInRange ==
    \A r \in DOMAIN pgBookings :
        /\ pgBookings[r].payment_status \in {"pending", "paid", "failed"}
        /\ pgBookings[r].status \in
              {"new", "assigned", "dispatched", "completed", "cancelled"}

\* C26: a booking is never deleted: every stored booking is stored after
\* every step, and nothing of it but its status has changed.
C26_BookingNeverDeleted ==
    [][\A b \in DOMAIN bookings :
          /\ b \in DOMAIN bookings'
          /\ bookings'[b] = [bookings[b] EXCEPT !.status = bookings'[b].status]]_vars

\* C26: both bookings are stored after two customer replies, an
\* assignment and the passing of time, one of them with a status a reply
\* set and one with the status the assignment set.
C26_Witness ==
    /\ DOMAIN bookings = BookingIds
    /\ messages = MaxMessages /\ now = MaxNow
    /\ \E b \in BookingIds : bookings[b].status = "CANCEL_REQUESTED"
    /\ \E b \in BookingIds :
          b \in DOMAIN assignments /\ bookings[b].status = "DRIVER_ASSIGNED"

\* C26, chat server: every booking of bookings.json is in it, unchanged,
\* after every step.
C26_ChatBookingKept ==
    [][\A i \in 1..Len(chBookings) :
          \E j \in 1..Len(chBookings') : chBookings'[j] = chBookings[i]]_vars

\* C27: a booking confirmed by a customer carries the route and price that
\* customer was quoted, under any interleaving of the requests of two
\* customers.  The pending quote is kept under the Origin header of the
\* request, which is the same for every customer of the website, so the
\* chat server violates it.
C27_BookingCarriesOwnQuote ==
    [][Len(chBookings') > Len(chBookings)
          => LET b == chBookings'[1]
             IN  chShown[b.customer_phone] =
                    <<[pickup |-> b.pickup, dropoff |-> b.dropoff,
                       price |-> b.price_gbp]>>]_vars

\* The words of a reply that the claim is about.
C28_Keywords == {"cancel", "confirm", "yes"}

\* The number a message was sent from, with or without the whatsapp: prefix.
C28_SenderNumber(from) ==
    CHOOSE p \in Phones : from \in {p, <<"whatsapp:">> \o p}

\* The step sets status st on one of the latest bookings of the number and
\* changes nothing else; with no booking of the number it changes nothing.
C28_SetsOnLatest(phone, st) ==
    IF \E b \in DOMAIN bookings : bookings[b].customer_phone = phone
    THEN \E b \in DOMAIN bookings :
            /\ bookings[b].customer_phone = phone
            /\ \A c \in DOMAIN bookings :
                  bookings[c].customer_phone = phone
                     => bookings[c].created_at_iso <= bookings[b].created_at_iso
            /\ DOMAIN bookings' = DOMAIN bookings
            /\ bookings'[b] = [bookings[b] EXCEPT !.status = st]
            /\ \A c \in DOMAIN bookings \ {b} : bookings'[c] = bookings[c]
    ELSE bookings' = bookings

\* C28 as stated: an inbound message with the word cancel sets
\* CANCEL_REQUESTED, and one with the word confirm or yes sets
\* CUSTOMER_CONFIRMED, on the latest booking of the sender's number and on
\* no other booking; a message from a number with no booking changes no
\* booking.
C28_ReplySetsStatusAsStated ==
    [][messages' = messages + 1 =>
         \A body \in {w \in Bodies : \E k \in C28_Keywords : HasWord(w, k)},
            from \in Senders :
            TwilioWhatsApp(from, body) =>
               /\ HasWord(body, "cancel") =>
                     C28_SetsOnLatest(C28_SenderNumber(from), "CANCEL_REQUESTED")
               /\ HasWord(body, "confirm") \/ HasWord(body, "yes") =>
                     C28_SetsOnLatest(C28_SenderNumber(from), "CUSTOMER_CONFIRMED")]_vars

\* C28, amended: an inbound message with the word cancel sets
\* CANCEL_REQUESTED, and one with the word confirm or yes and without the
\* word cancel sets CUSTOMER_CONFIRMED, on the latest booking of the
\* sender's number and on no other booking; a message from a number with no
\* booking changes no booking.
C28_ReplySetsStatus ==
    [][messages' = messages + 1 =>
         \A body \in {w \in Bodies : \E k \in C28_Keywords : HasWord(w, k)},
            from \in Senders :
            TwilioWhatsApp(from, body) =>
               /\ HasWord(body, "cancel") =>
                     C28_SetsOnLatest(C28_SenderNumber(from), "CANCEL_REQUESTED")
               /\ /\ HasWord(body, "confirm") \/ HasWord(body, "yes")
                  /\ ~HasWord(body, "cancel")
                  => C28_SetsOnLatest(C28_SenderNumber(from), "CUSTOMER_CONFIRMED")]_vars

\* A reply has cancelled the later of two bookings of one number and the
\* earlier one is as it was created.
C28_Witness ==
    /\ messages > 0
    /\ \E b, c \in DOMAIN bookings :
          /\ bookings[b].customer_phone = bookings[c].customer_phone
          /\ bookings[c].created_at_iso < bookings[b].created_at_iso
          /\ bookings[b].status = "CANCEL_REQUESTED"
          /\ bookings[c].status = "NEW"

\* C29: in every reachable state of the webhook-driven booking store a
\* booking whose status is dispatched has payment_status paid, and an order
\* for it was posted to the fleet system.
C29_DispatchedIsPaid ==
    \A r \in DOMAIN pgBookings :
       pgBookings[r].status = "dispatched"
          => /\ pgBookings[r].payment_status = "paid"
             /\ pgDispatched[r] > 0

\* A booking was paid and dispatched by a webhook delivery while another
\* booking is still pending and new.
C29_Witness ==
    \E r, q \in DOMAIN pgBookings :
       /\ pgBookings[r].status = "dispatched"
       /\ pgDispatched[r] > 0
       /\ pgBookings[q].payment_status = "pending"
       /\ pgBookings[q].status = "new"

\* C30: in the chat booking flow a booking is written only from the pending
\* quote of the session key of the request, and the entry is removed with
\* it; a customer's no removes the entry of the key; an entry appears only
\* with a newly quoted route.  So a repeated name and phone message writes
\* no second booking from the same quote.
C30_OneBookingPerPendingQuote ==
    [][/\ Len(chBookings') > Len(chBookings) =>
             \E key \in DOMAIN chPending :
                /\ DOMAIN chPending' = DOMAIN chPending \ {key}
                /\ \A k \in DOMAIN chPending' : chPending'[k] = chPending[k]
                /\ Tail(chBookings') = chBookings
                /\ chBookings'[1].pickup = chPending[key].pickup
                /\ chBookings'[1].dropoff = chPending[key].dropoff
                /\ chBookings'[1].pickup_time_iso = chPending[key].pickup_time_iso
                /\ chBookings'[1].price_gbp = chPending[key].price
       /\ Len(chBookings') >= Len(chBookings)
       /\ chReply' = "cancelled" =>
             \E key \in ChatKeys :
                /\ DOMAIN chPending' = DOMAIN chPending \ {key}
                /\ \A k \in DOMAIN chPending' : chPending'[k] = chPending[k]
       /\ \A key \in ChatKeys :
             /\ key \in DOMAIN chPending'
             /\ key \notin DOMAIN chPending \/ chPending'[key] # chPending[key]
             => chReply' = "quote" /\ chBookings' = chBookings]_vars

\* Two quotes were booked, one booking each, and no quote is pending.
C30_Witness ==
    /\ Len(chBookings) = 2
    /\ chReply = "booked"
    /\ DOMAIN chPending = {}
    /\ chBookings[1].pickup # chBookings[2].pickup
          \/ chBookings[1].dropoff # chBookings[2].dropoff

\* C31: a completed-payment webhook whose note holds no booking reference
\* sends no confirmation e-mail.  The webhook of the server without a store
\* takes the reference TTTAXIS for such a note and sends the e-mails.
C31_NotifyMissingRefNoEmail == nsEmails[DefaultRef] = 0

\* C31 for the multi-area server: no confirmation e-mail is sent for a
\* reference that matches no stored booking.  Its webhook sends the e-mails
\* whenever the payment names a buyer e-mail address.
C31_AreaUnknownRefNoEmail == arEmails[UnknownAreaId] = 0

\* C31 for the Postgres server: a completed-payment delivery whose note
\* holds no BookingRef line, or one that matches no stored booking, changes
\* no booking, sends no e-mail, dispatches nothing and is answered 200.
C31_PgUnknownRefNoChange ==
    [][pgDeliveries' = pgDeliveries + 1 /\ pgResp'.kind = "completed" =>
         \A note \in {n \in Notes : \A r \in DOMAIN pgBookings : SquareNote(r) # n} :
            \A event \in {e \in Events : e.note = note /\ EventKind(e) = "completed"},
               emailOk, dispatchOk \in BOOLEAN :
               PgSquareWebhook(pgResp'.signed, event, emailOk, dispatchOk) =>
                  /\ pgBookings' = pgBookings
                  /\ pgEmails' = pgEmails
                  /\ pgDispatched' = pgDispatched
                  /\ pgResp'.code = 200]_vars

\* The rules of /quote of the server that books without a payment provider,
\* in the order of the source, prices in pence.
C32_InstantRules(service_area) ==
    << [match |-> "manchester",
        price |-> IF service_area = "lancaster" THEN 8500 ELSE 7500],
       [match |-> "liverpool",
        price |-> IF service_area = "lancaster" THEN 9500 ELSE 8500],
       [match |-> "leeds",
        price |-> IF service_area = "lancaster" THEN 8000 ELSE 7000] >>

\* C32: when a request matches more than one fixed-fare rule the quoted
\* price is that of the first matching rule in table order.  /quote of the
\* server that books without a payment provider tests the rules one after
\* the other without leaving, so the last matching rule decides.
C32_InstantFirstRuleWins ==
    [][\A pickup \in Pickups \ {<<>>}, dropoff \in InstantDropoffs \ {<<>>},
          service_area \in ServiceAreas :
          InstantQuote(pickup, dropoff, service_area) =>
             LET rules == C32_InstantRules(service_area)
             IN  \A i \in 1..Len(rules) :
                    /\ Includes(ToLowerCase(dropoff), rules[i].match)
                    /\ \A j \in 1..(i - 1) :
                          ~Includes(ToLowerCase(dropoff), rules[j].match)
                    => icResp'.price = rules[i].price]_vars

\* C32 for the stateless quote server: every issued quote whose pickup or
\* dropoff matches a rule of FIXED_AIRPORT_FARES is fixed, at the price of
\* the first rule of the table that matches.
C32_QuoteFirstRuleWins ==
    \A q \in qIssued :
       \A i \in 1..Len(FIXED_AIRPORT_FARES) :
          /\ \/ Includes(ToLowerCase(q.pickup), FIXED_AIRPORT_FARES[i].match)
             \/ Includes(ToLowerCase(q.dropoff), FIXED_AIRPORT_FARES[i].match)
          /\ \A j \in 1..(i - 1) :
                /\ ~Includes(ToLowerCase(q.pickup), FIXED_AIRPORT_FARES[j].match)
                /\ ~Includes(ToLowerCase(q.dropoff), FIXED_AIRPORT_FARES[j].match)
          => /\ q.fixed
             /\ q.price_gbp_inc_vat = FixedTotal(FIXED_AIRPORT_FARES[i].price)

\* A quote was issued for a pickup in Manchester and a dropoff in
\* Liverpool.
C32_QuoteTwoRulesMatch ==
    \E q \in qIssued :
       /\ Includes(ToLowerCase(q.pickup), "manchester")
       /\ Includes(ToLowerCase(q.dropoff), "liverpool")

\* C33: fixed route fares are direction-independent: the fixed fare that
\* /quote answered for a pickup and a dropoff is what getFixedRouteFare
\* returns for the dropoff as pickup and the pickup as dropoff.
C33_FixedFareSymmetric ==
    lqResp.op = "quote" /\ lqResp.pickup # <<>> /\ lqResp.dropoff # <<>>
       => GetFixedRouteFare(lqResp.dropoff, lqResp.pickup)
             = (IF lqResp.fixed THEN lqResp.price_gbp ELSE <<>>)

\* A quote from the airport back to a town was answered with the fixed fare
\* of the route from the town to the airport.
C33_Witness ==
    /\ lqResp.op = "quote" /\ lqResp.fixed
    /\ lqResp.pickup = <<"Manchester", "Airport">>
    /\ lqResp.dropoff = <<"Kendal">>
    /\ lqResp.price_gbp = GetFixedRouteFare(<<"Kendal">>, <<"Manchester", "Airport">>)

\* C34 as stated: /quote reports exactly one of pay_driver (p <= 15) and
\* deposit_available (p > 15) as true, and /create-payment creates a card
\* checkout if and only if p > 15 and answers payment_mode pay_driver
\* otherwise.
C34_PaymentModeAsStated ==
    /\ nsResp.op = "quote" /\ nsResp.code = 200 =>
          /\ nsResp.pay_driver = (nsResp.price <= PayDriverLimit)
          /\ nsResp.deposit_available = (nsResp.price > PayDriverLimit)
    /\ nsResp.op = "create-payment" =>
          /\ nsResp.payment_mode = "card" <=> nsResp.price > PayDriverLimit
          /\ nsResp.price <= PayDriverLimit => nsResp.payment_mode = "pay_driver"

\* C34, amended: /quote reports exactly one of pay_driver (p <= 15) and
\* deposit_available (p > 15) as true; /create-payment answers a request
\* without an e-mail address 400 and one whose payment link fails 500, both
\* without a checkout; every other request gets a card checkout of the
\* charged amount if p > 15 and payment_mode pay_driver if p <= 15.
C34_PaymentModeConsistent ==
    /\ nsResp.op = "quote" /\ nsResp.code = 200 =>
          /\ nsResp.pay_driver = (nsResp.price <= PayDriverLimit)
          /\ nsResp.deposit_available = (nsResp.price > PayDriverLimit)
          /\ nsResp.pay_driver # nsResp.deposit_available
    /\ nsResp.op = "create-payment" =>
          /\ nsResp.code \in {200, 400, 500}
          /\ nsResp.code = 200 =>
                IF nsResp.price > PayDriverLimit
                THEN /\ nsResp.payment_mode = "card"
                     /\ \E c \in nsCheckouts :
                           c.amount \in {nsResp.price, Deposit(nsResp.price)}
                ELSE nsResp.payment_mode = "pay_driver"
          /\ nsResp.code # 200 => nsResp.payment_mode = "none"
          /\ nsResp.code = 500 => nsResp.price > PayDriverLimit

\* A fare of exactly 15 pounds was answered with pay_driver after a card
\* checkout had been created for a higher fare.
C34_Witness ==
    /\ nsResp.op = "create-payment"
    /\ nsResp.price = PayDriverLimit
    /\ nsResp.payment_mode = "pay_driver"
    /\ nsCheckouts # {}

\* A quote of more than 15 pounds offered the deposit and not pay_driver.
C34_QuoteWitness ==
    /\ nsResp.op = "quote" /\ nsResp.code = 200
    /\ nsResp.deposit_available /\ ~nsResp.pay_driver

\* The requests to /admin/assign-driver that fail: no or a wrong admin
\* token, a missing booking_id or driver_id, an unknown booking or driver.
C35_FailedRequests ==
    {req \in [token : AdminTokens, booking_id : BookingIds \cup {NULL},
              driver_id : DriverIds \cup {UnknownDriver, NULL}] :
        \/ req.token # "change-me"
        \/ req.booking_id = NULL \/ req.driver_id = NULL
        \/ req.booking_id \notin DOMAIN bookings
        \/ req.driver_id \notin DOMAIN drivers}

\* C35: a failed POST /admin/assign-driver leaves the assignments table and
\* every booking's status unchanged: a step that changes either is the step
\* of no failed request.
C35_FailedAssignChangesNothing ==
    [][/\ messages' = messages /\ now' = now
       /\ DOMAIN bookings' = DOMAIN bookings
       /\ assignments' # assignments \/ bookings' # bookings
       => \A req \in C35_FailedRequests :
             ~AssignDriver(req.token, req.booking_id, req.driver_id)]_vars

\* One booking is assigned and another is new and unassigned, with a driver
\* on file: failed requests for either have an assignment and a status to
\* leave alone.
C35_Witness ==
    /\ assignments # <<>>
    /\ \E b \in DOMAIN bookings \ DOMAIN assignments : bookings[b].status = "NEW"
    /\ \E b \in DOMAIN assignments : bookings[b].status = "DRIVER_ASSIGNED"

\* C36 as stated: getTaxiCallerToken returns a cached token only before
\* its recorded expiry, and with expires_in >= 60 a token it returns,
\* cached or new, is one the provider still takes.
C36_ReturnedTokenValidAsStated ==
    /\ tcReturned.cached => tcReturned.at < tcReturned.expires
    /\ /\ tcReturned.token # NoToken
       /\ tcIssued[tcReturned.token].expires_in >= TokenMargin
       => tcReturned.at < ValidUntil(tcReturned.token)

\* C36, amended: getTaxiCallerToken returns a cached token only before its
\* recorded expiry; the recorded expiry is the time of the call that
\* fetched the token plus expires_in - 60 seconds, which is 60 seconds or
\* more before the provider stops taking the token; so a cached token that
\* is returned is one the provider still takes, for 60 seconds more.
C36_CachedTokenValid ==
    /\ tcReturned.cached => tcReturned.at < tcReturned.expires
    /\ taxiCallerToken # NoToken =>
          taxiCallerTokenExpires <= ValidUntil(taxiCallerToken) - TokenMargin
    /\ tcReturned.cached =>
          tcReturned.at + TokenMargin < ValidUntil(tcReturned.token)
    /\ \A c \in tcCalls :
          c.token # NoToken =>
             TokenExpires(c.now, tcIssued[c.token].expires_in)
                <= ValidUntil(c.token) - TokenMargin

\* A cached token was returned after the provider had issued a second
\* token, and a later one of the clock.
C36_Witness ==
    /\ tcReturned.cached
    /\ tcReturned.token # NoToken
    /\ Len(tcIssued) >= 2
    /\ tcReturned.at > 0

====
